---- MODULE Spec2Model ----
(***************************************************************************)
(* Authentication and account-recovery subsystem of the CRM backend:       *)
(* registration, e-mail verification, resend, login with lockout,          *)
(* forgot/reset password, change password, logout and the authenticate     *)
(* middleware, the requirePermission middleware and the client listing,    *)
(* over the Organization / User / Role / UserRole / RolePermission /       *)
(* OtpSession / OtpToken / OtpAttempt / Session / Client tables.           *)
(*                                                                         *)
(* Every awaited database call of a handler is one atomic step of the      *)
(* request that runs it; a prisma.$transaction block commits as one step.  *)
(* Time is the server clock, in ClockTicksPerSecond ticks to the second.   *)
(***************************************************************************)
EXTENDS Integers, Sequences, FiniteSets, Bags, TLC

\* ------------------------------------------------------------------------
\* Program constants (registration.constants.ts)
\* ------------------------------------------------------------------------
OTP_EXPIRY_MINUTES == 15
SESSION_EXPIRY_HOURS == 24
OTP_MAX_ATTEMPTS == 5
OTP_LOCK_DURATION_MINUTES == 15
MAX_RESENDS == 5
RESEND_COOLDOWN_SECONDS == 60
MAX_LOGIN_ATTEMPTS == 5
SESSION_EXPIRY_DAYS == 30
SESSION_ACTIVITY_UPDATE_THRESHOLD_MINUTES == 5
SLUG_MAX_ATTEMPTS == 5

\* ------------------------------------------------------------------------
\* Bounds of the model
\* ------------------------------------------------------------------------
MaxOtpSessions == 3
MaxOtpTokens == 3
MaxSessions == 3
MaxTicks == 2
MaxOtpFailures == 5
MaxRelockFailures == 7
MaxOverlapSessions == 2
MaxCapTokens == 7
\* The resolution of the clock: Date values are multiples of 1/ClockTicksPerSecond s.
ClockTicksPerSecond == 2

\* ------------------------------------------------------------------------
\* Durations, in clock ticks (the code computes them in milliseconds)
\* ------------------------------------------------------------------------
OtpTokenLifetime == OTP_EXPIRY_MINUTES * 60 * ClockTicksPerSecond
OtpSessionLifetime == SESSION_EXPIRY_HOURS * 60 * 60 * ClockTicksPerSecond
OtpLockDuration == OTP_LOCK_DURATION_MINUTES * 60 * ClockTicksPerSecond
SessionLifetime == SESSION_EXPIRY_DAYS * 24 * 60 * 60 * ClockTicksPerSecond
ActivityThreshold == SESSION_ACTIVITY_UPDATE_THRESHOLD_MINUTES * 60 * ClockTicksPerSecond
\* cooldownMs
ResendCooldown == RESEND_COOLDOWN_SECONDS * ClockTicksPerSecond

\* Math.floor in the place of Math.ceil.
FloorDiv(a, b) == a \div b

\* Math.ceil(a / b) for b > 0.
CeilDiv(a, b) == (a + b - 1) \div b

\* A nullable column that holds no value (Prisma null).
NULL == 0 - 1

Emails == {"a@x.com", "b@x.com"}
Passwords == {"Passw0rd", "Hunter22"}
Codes == {"111111", "222222"}
Procs == {"r1", "r2"}
Purposes == {"EMAIL_VERIFICATION", "PASSWORD_RESET"}

\* Organization names that registrations give, and the suffixes that
\* generateRandomSuffix draws.
OrgNames == {"Acme Inc", "ACME  inc.", "Beta"}
SlugSuffixes == {"k3x9"}

VARIABLES now, ticks, users, otpSessions, otpTokens, otpAttempts, sessions, bg, req,
          organizations, userRoles, roles, rolePermissions, clients

vars == <<now, ticks, users, otpSessions, otpTokens, otpAttempts, sessions, bg, req,
          organizations, userRoles, roles, rolePermissions, clients>>

\* The tables that only registration writes (Role, RolePermission and Client
\* are written by the seed scripts and read by the handlers).
tenancy == <<organizations, userRoles, roles, rolePermissions, clients>>

\* The clock and the lastActivity writes still in the background.
env == <<now, ticks, bg>>

db == <<users, otpSessions, otpTokens, otpAttempts, sessions, tenancy>>

\* ------------------------------------------------------------------------
\* Credential primitives
\* ------------------------------------------------------------------------
hashPassword(plain) == <<"bcrypt", plain>>

verifyPassword(plain, hash) == hash = <<"bcrypt", plain>>

hashOTP(code) == <<"sha256", code>>

verifyOTP(code, hash) == hashOTP(code) = hash

\* ------------------------------------------------------------------------
\* Rows
\* ------------------------------------------------------------------------
NoUser == [exists |-> FALSE, password |-> <<"bcrypt", "">>, verified |-> FALSE,
           isLocked |-> FALSE, loginAttempts |-> 0, orgDeleted |-> FALSE,
           organizationId |-> NULL]

Indices(table) == 1..Len(table)

\* The newest row (createdAt desc = highest id) of a set of ids, NULL if none.
Newest(ids) == IF ids = {} THEN NULL ELSE CHOOSE i \in ids : \A j \in ids : j <= i

\* ------------------------------------------------------------------------
\* slug.util, organization.repository, role.repository
\* ------------------------------------------------------------------------
\* generateSlug: lower case, trimmed, every run of characters other than
\* a-z and 0-9 turned into one hyphen, no hyphen at either end.
generateSlug(name) ==
    CASE name = "Acme Inc" -> "acme-inc"
      [] name = "ACME  inc." -> "acme-inc"
      [] name = "Beta" -> "beta"

\* generateUniqueSlug found every slug it tried taken.
NoSlug == ""

slugExists(orgs, slug) == \E i \in Indices(orgs) : orgs[i].slug = slug

\* generateUniqueSlug, given the suffixes that generateRandomSuffix draws in
\* its SLUG_MAX_ATTEMPTS attempts.
generateUniqueSlug(orgs, organizationName, suffixes) ==
    LET baseSlug == generateSlug(organizationName)
        free == {a \in 1..SLUG_MAX_ATTEMPTS :
                    ~slugExists(orgs, baseSlug \o "-" \o suffixes[a])}
    IN  IF ~slugExists(orgs, baseSlug)
        THEN baseSlug
        ELSE IF free = {}
        THEN NoSlug
        ELSE baseSlug \o "-" \o suffixes[CHOOSE a \in free : \A b \in free : a <= b]

createOrganization(orgs, name, slug) == Append(orgs, [name |-> name, slug |-> slug])

\* assignOwnerRole once the OWNER role has been found.
assignOwnerRole(urs, userId) == Append(urs, [userId |-> userId, role |-> "OWNER"])

\* ------------------------------------------------------------------------
\* permission.util and the seed of the OWNER role
\* ------------------------------------------------------------------------
\* The RolePermission rows of the seed: the OWNER role holds the wildcard.
SeededRolePermissions == {[role |-> "OWNER", resource |-> "*", action |-> "*"]}

\* `${permission.resource}:${permission.action}`
permissionString(resource, action) == resource \o ":" \o action

\* The permissions of the roles assigned to the user, as findUserById loads them.
loadedPermissions(urs, rps, userId) ==
    {p \in rps : \E i \in Indices(urs) : urs[i].userId = userId /\ urs[i].role = p.role}

flattenUserPermissions(urs, rps, userId) ==
    {permissionString(p.resource, p.action) : p \in loadedPermissions(urs, rps, userId)}

\* hasPermission that knows no wildcard.
hasPermissionExact(urs, rps, userId, resource, action) ==
    \E p \in loadedPermissions(urs, rps, userId) :
        permissionString(p.resource, p.action) = permissionString(resource, action)

hasPermission(urs, rps, userId, resource, action) ==
    LET targetPermission == permissionString(resource, action)
        wildcard == permissionString(resource, "*")
        superWildcard == "*:*"
    IN  \E p \in loadedPermissions(urs, rps, userId) :
            \/ permissionString(p.resource, p.action) = targetPermission
            \/ permissionString(p.resource, p.action) = wildcard
            \/ permissionString(p.resource, p.action) = superWildcard

\* ------------------------------------------------------------------------
\* client.repository
\* ------------------------------------------------------------------------
\* findClientsForUser with the first page large enough for every match and
\* no search filter: the where clause of the organization and, when the
\* filter names one, of the creator.
findClientsForUser(cs, filters) ==
    {i \in Indices(cs) : /\ cs[i].organizationId = filters.organizationId
                         /\ filters.createdById # ""
                            => cs[i].createdById = filters.createdById}

\* ------------------------------------------------------------------------
\* user.repository
\* ------------------------------------------------------------------------
getUserByEmail(us, email) == us[email]

findUserForLogin(us, email) == us[email]

createUser(us, email, passwordHash, organizationId) ==
    [us EXCEPT ![email] = [exists |-> TRUE, password |-> passwordHash,
                           verified |-> FALSE, isLocked |-> FALSE,
                           loginAttempts |-> 0, orgDeleted |-> FALSE,
                           organizationId |-> organizationId]]

markUserVerified(us, userId) == [us EXCEPT ![userId].verified = TRUE]

\* incrementUserLoginAttempts that locks one attempt late (> for >=).
incrementLockingLate(us, userId, currentAttempts) ==
    LET newAttempts == currentAttempts + 1
        shouldLock == newAttempts > MAX_LOGIN_ATTEMPTS
    IN  [us EXCEPT ![userId].loginAttempts = newAttempts,
                   ![userId].isLocked = shouldLock]

incrementUserLoginAttempts(us, userId, currentAttempts) ==
    LET newAttempts == currentAttempts + 1
        shouldLock == newAttempts >= MAX_LOGIN_ATTEMPTS
    IN  [us EXCEPT ![userId].loginAttempts = newAttempts,
                   ![userId].isLocked = shouldLock]

\* A successful login that leaves the failed attempts counted.
keepUserLoginAttempts(us, userId) == us

resetUserLoginAttempts(us, userId) == [us EXCEPT ![userId].loginAttempts = 0]

\* updateUserPassword that leaves the lock of the account in place.
updateUserPasswordKeepingLock(us, userId, passwordHash) ==
    [us EXCEPT ![userId].password = passwordHash,
               ![userId].loginAttempts = 0,
               ![userId].verified = TRUE]

updateUserPassword(us, userId, passwordHash) ==
    [us EXCEPT ![userId].password = passwordHash,
               ![userId].loginAttempts = 0,
               ![userId].isLocked = FALSE,
               ![userId].verified = TRUE]

updateUserPasswordOnly(us, userId, passwordHash) ==
    [us EXCEPT ![userId].password = passwordHash]

\* ------------------------------------------------------------------------
\* otp.repository
\* ------------------------------------------------------------------------
NewOtpSession(email, purpose, t) ==
    [email |-> email, purpose |-> purpose, active |-> TRUE,
     expiresAt |-> t + OtpSessionLifetime, attemptCount |-> 0,
     maxAttempts |-> OTP_MAX_ATTEMPTS, lockUntil |-> NULL,
     resendCount |-> 0, lastSentAt |-> t]

createOtpSession(ss, email, t) == Append(ss, NewOtpSession(email, "EMAIL_VERIFICATION", t))

createPasswordResetOtpSession(ss, email, t) == Append(ss, NewOtpSession(email, "PASSWORD_RESET", t))

createOtpToken(ts, sessionId, otpCode, t) ==
    Append(ts, [sessionId |-> sessionId, codeHash |-> hashOTP(otpCode),
                expiresAt |-> t + OtpTokenLifetime, consumedAt |-> NULL])

findActiveOtpSession(ss, email) ==
    Newest({i \in Indices(ss) : /\ ss[i].email = email
                                /\ ss[i].purpose = "EMAIL_VERIFICATION"
                                /\ ss[i].active})

findActivePasswordResetSession(ss, email) ==
    Newest({i \in Indices(ss) : /\ ss[i].email = email
                                /\ ss[i].purpose = "PASSWORD_RESET"
                                /\ ss[i].active})

findAnyOtpSession(ss, email) ==
    Newest({i \in Indices(ss) : /\ ss[i].email = email
                                /\ ss[i].purpose = "EMAIL_VERIFICATION"})

\* orderBy lockUntil desc: the most restrictive lock, NULL when there is none.
MostRestrictive(ss, ids) ==
    IF ids = {} THEN NULL
    ELSE CHOOSE i \in ids : \A j \in ids :
             \/ ss[j].lockUntil < ss[i].lockUntil
             \/ (ss[j].lockUntil = ss[i].lockUntil /\ j <= i)

\* findSessionsWithActiveLocks with the comparison turned round (lt for gt).
findSessionsWithPastLocks(ss, email, t) ==
    MostRestrictive(ss, {i \in Indices(ss) : /\ ss[i].email = email
                                             /\ ss[i].purpose = "EMAIL_VERIFICATION"
                                             /\ ss[i].lockUntil # NULL
                                             /\ ss[i].lockUntil < t})

findSessionsWithActiveLocks(ss, email, t) ==
    MostRestrictive(ss, {i \in Indices(ss) : /\ ss[i].email = email
                                             /\ ss[i].purpose = "EMAIL_VERIFICATION"
                                             /\ ss[i].lockUntil # NULL
                                             /\ ss[i].lockUntil > t})

findPasswordResetSessionsWithActiveLocks(ss, email, t) ==
    MostRestrictive(ss, {i \in Indices(ss) : /\ ss[i].email = email
                                             /\ ss[i].purpose = "PASSWORD_RESET"
                                             /\ ss[i].lockUntil # NULL
                                             /\ ss[i].lockUntil > t})

\* Newest first.
findUnconsumedOtpTokens(ts, sessionId) ==
    {i \in Indices(ts) : ts[i].sessionId = sessionId /\ ts[i].consumedAt = NULL}

\* incrementOtpSessionAttempts that writes the count back as it read it.
incrementWithoutCounting(ss, sessionId, currentAttempts, t) ==
    LET newAttemptCount == currentAttempts
        shouldLock == newAttemptCount >= ss[sessionId].maxAttempts
        lockUntil == IF shouldLock THEN t + OtpLockDuration ELSE NULL
    IN  [ss EXCEPT ![sessionId].attemptCount = newAttemptCount,
                   ![sessionId].lockUntil = lockUntil]

\* The write half of incrementOtpSessionAttempts: currentAttempts is the
\* attemptCount its findUnique read.
incrementOtpSessionAttempts(ss, sessionId, currentAttempts, t) ==
    LET newAttemptCount == currentAttempts + 1
        shouldLock == newAttemptCount >= ss[sessionId].maxAttempts
        lockUntil == IF shouldLock THEN t + OtpLockDuration ELSE NULL
    IN  [ss EXCEPT ![sessionId].attemptCount = newAttemptCount,
                   ![sessionId].lockUntil = lockUntil]

markOtpTokenConsumed(ts, tokenId, t) == [ts EXCEPT ![tokenId].consumedAt = t]

markOtpSessionInactive(ss, sessionId) == [ss EXCEPT ![sessionId].active = FALSE]

createOtpAttempt(as, sessionId, tokenId, status, reason) ==
    as (+) SetToBag({[sessionId |-> sessionId, tokenId |-> tokenId,
                      purpose |-> "EMAIL_VERIFICATION",
                      status |-> status, reason |-> reason]})

createPasswordResetOtpAttempt(as, sessionId, tokenId, status, reason) ==
    as (+) SetToBag({[sessionId |-> sessionId, tokenId |-> tokenId,
                      purpose |-> "PASSWORD_RESET",
                      status |-> status, reason |-> reason]})

invalidateSessionTokens(ts, sessionId, t) ==
    [i \in Indices(ts) |->
        IF ts[i].sessionId = sessionId /\ ts[i].consumedAt = NULL
        THEN [ts[i] EXCEPT !.consumedAt = t]
        ELSE ts[i]]

updateSessionResendMetadata(ss, sessionId, resendCount, lastSentAt) ==
    [ss EXCEPT ![sessionId].resendCount = resendCount,
               ![sessionId].lastSentAt = lastSentAt]

\* ------------------------------------------------------------------------
\* session.repository
\* ------------------------------------------------------------------------
createSession(ss, userId, t) ==
    Append(ss, [userId |-> userId, expiresAt |-> t + SessionLifetime,
                revokedAt |-> NULL, revokedReason |-> "", lastActivity |-> t])

updateSessionActivity(ss, sessionId, t) == [ss EXCEPT ![sessionId].lastActivity = t]

\* The cookie token is the session it was issued for; 0 is a token of no session.
findSessionByTokenHash(ss, token) == IF token \in Indices(ss) THEN token ELSE NULL

findSessionForAuth(ss, token) == IF token \in Indices(ss) THEN token ELSE NULL

revokeSession(ss, sessionId, reason, t) ==
    [ss EXCEPT ![sessionId].revokedAt = t, ![sessionId].revokedReason = reason]

\* revokeUserSessions as an update of one row instead of updateMany.
revokeOneUserSession(ss, userId, reason, t) ==
    LET first == {i \in Indices(ss) : /\ ss[i].userId = userId /\ ss[i].revokedAt = NULL
                                      /\ \A j \in 1..(i - 1) :
                                            ss[j].userId # userId \/ ss[j].revokedAt # NULL}
    IN  [i \in Indices(ss) |->
            IF i \in first
            THEN [ss[i] EXCEPT !.revokedAt = t, !.revokedReason = reason]
            ELSE ss[i]]

revokeUserSessions(ss, userId, reason, t) ==
    [i \in Indices(ss) |->
        IF ss[i].userId = userId /\ ss[i].revokedAt = NULL
        THEN [ss[i] EXCEPT !.revokedAt = t, !.revokedReason = reason]
        ELSE ss[i]]

\* revokeUserSessionsExcept without the NOT { id: currentSessionId } filter.
revokeIncludingCurrent(ss, userId, currentSessionId, reason, t) ==
    [i \in Indices(ss) |->
        IF ss[i].userId = userId /\ ss[i].revokedAt = NULL
        THEN [ss[i] EXCEPT !.revokedAt = t, !.revokedReason = reason]
        ELSE ss[i]]

revokeUserSessionsExcept(ss, userId, currentSessionId, reason, t) ==
    [i \in Indices(ss) |->
        IF ss[i].userId = userId /\ ss[i].revokedAt = NULL /\ i # currentSessionId
        THEN [ss[i] EXCEPT !.revokedAt = t, !.revokedReason = reason]
        ELSE ss[i]]

\* ------------------------------------------------------------------------
\* Requests: the handler a request runs, where it stands in it, what it was
\* given and what it has read so far, and its result once it is done.
\* ------------------------------------------------------------------------
Resp(status, code, message, extra) ==
    [status |-> status, code |-> code, message |-> message, extra |-> extra]

NoResp == Resp(0, "", "", NULL)

\* req.userContext not set.
NoContext == [userId |-> "", sessionId |-> 0, organizationId |-> NULL,
              permissions |-> {}, canAccessAll |-> FALSE, filterType |-> ""]

Idle == [op |-> "none", pc |-> "idle", email |-> "", code |-> "", pw |-> "",
         org |-> "", newpw |-> "", tok |-> 0, everywhere |-> FALSE,
         t |-> 0, sid |-> 0, tid |-> 0, cnt |-> 0, flag |-> FALSE,
         auth |-> 0, log |-> "", resp |-> NoResp, cleared |-> FALSE,
         resource |-> "", action |-> "", ctx |-> NoContext, rows |-> {}]

Free(r) == req[r].pc \in {"idle", "done"}

At(r, op, pc) == req[r].op = op /\ req[r].pc = pc

\* The request moves on inside its handler.
Goto(r, pc, locals) == req' = [req EXCEPT ![r] = [locals EXCEPT !.pc = pc]]

\* The request ends with a result, after logging what it did; what it had
\* read goes away with it.
FinishLog(r, log, resp) ==
    req' = [req EXCEPT ![r] = [req[r] EXCEPT !.pc = "done", !.t = 0, !.sid = 0, !.tid = 0,
                                             !.cnt = 0, !.flag = FALSE,
                                             !.log = log, !.resp = resp]]

\* The request ends with a result.
Finish(r, resp) == FinishLog(r, "", resp)

\* The request ends with a result after clearAuthCookie(res): the response
\* tells the client to drop its cookie.
FinishCleared(r, log, resp) ==
    req' = [req EXCEPT ![r] = [req[r] EXCEPT !.pc = "done", !.t = 0, !.sid = 0, !.tid = 0,
                                             !.cnt = 0, !.flag = FALSE,
                                             !.log = log, !.resp = resp,
                                             !.cleared = TRUE]]

Init ==
    /\ now = 0
    /\ ticks = 0
    /\ users = [e \in Emails |-> NoUser]
    /\ otpSessions = <<>>
    /\ otpTokens = <<>>
    /\ otpAttempts = EmptyBag
    /\ sessions = <<>>
    /\ bg = {}
    /\ req = [r \in Procs |-> Idle]
    /\ organizations = <<>>
    /\ userRoles = <<>>
    /\ roles = {"OWNER"}
    /\ rolePermissions = SeededRolePermissions
    /\ clients = <<>>

\* The server clock moves by d ticks.
Tick(d) ==
    /\ ticks < MaxTicks
    /\ now' = now + d
    /\ ticks' = ticks + 1
    /\ UNCHANGED <<db, bg, req>>

\* ------------------------------------------------------------------------
\* RegisterService.register
\* ------------------------------------------------------------------------
emailNotVerified == Resp(403, "EMAIL_NOT_VERIFIED", "Email is not verified", NULL)

conflict == Resp(409, "", "Email already registered", NULL)

internalError == Resp(500, "", "Internal server error", NULL)

\* AppError.notFound("Owner role")
ownerRoleNotFound == Resp(404, "", "Owner role not found", NULL)

\* The organization name that each address registers with where the name
\* is not the subject.
OrgOf(email) == IF email = "a@x.com" THEN "Acme Inc" ELSE "Beta"

RegisterStartFor(r, email, pw, organizationName) ==
    /\ Free(r)
    /\ req' = [req EXCEPT ![r] = [Idle EXCEPT !.op = "register", !.pc = "lookup",
                                              !.email = email, !.pw = pw,
                                              !.org = organizationName]]
    /\ UNCHANGED <<env, db>>

RegisterStart(r, email, pw) == RegisterStartFor(r, email, pw, OrgOf(email))

RegisterLookup(r) ==
    /\ At(r, "register", "lookup")
    /\ LET existingUser == getUserByEmail(users, req[r].email)
       IN  IF existingUser.exists
           THEN IF ~existingUser.verified
                THEN Finish(r, emailNotVerified)
                ELSE Finish(r, conflict)
           ELSE Goto(r, "tx", req[r])
    /\ UNCHANGED <<env, db>>

\* The writes of a transaction that fails part-way stay in the database.
transactionWithoutRollback(before, staged, failed) == staged

\* prisma.$transaction: what the callback wrote is committed when it
\* returns and undone when it throws.
transaction(before, staged, failed) == IF failed THEN before ELSE staged

\* The statements of the registration transaction that write or may throw:
\* 1 generateUniqueSlug, 2 createOrganization, 3 createUser, 4 assignOwnerRole,
\* 5 createOtpSession, 6 createOtpToken, 7 auditLog.create.
RegisterTxSteps == 1..7

\* The registration transaction. suffixes are the draws of
\* generateRandomSuffix; fault is the statement at which the database fails
\* (0: at none). The unique constraint on User.email makes createUser throw
\* when a concurrent registration has created the user meanwhile.
RegisterTxRun(r, otpCode, suffixes, fault) ==
    /\ At(r, "register", "tx")
    /\ LET email == req[r].email
           slug == generateUniqueSlug(organizations, req[r].org, suffixes)
           throws == {k \in RegisterTxSteps :
                         \/ fault = k
                         \/ k = 1 /\ slug = NoSlug
                         \/ k = 3 /\ users[email].exists
                         \/ k = 4 /\ "OWNER" \notin roles}
           first == IF throws = {} THEN 8 ELSE CHOOSE k \in throws : \A j \in throws : k <= j
           organizations1 == IF first > 2
                             THEN createOrganization(organizations, req[r].org, slug)
                             ELSE organizations
           users1 == IF first > 3
                     THEN createUser(users, email, hashPassword(req[r].pw), Len(organizations1))
                     ELSE users
           userRoles1 == IF first > 4 THEN assignOwnerRole(userRoles, email) ELSE userRoles
           otpSessions1 == IF first > 5 THEN createOtpSession(otpSessions, email, now)
                           ELSE otpSessions
           otpTokens1 == IF first > 6
                         THEN createOtpToken(otpTokens, Len(otpSessions1), otpCode, now)
                         ELSE otpTokens
           before == [organizations |-> organizations, users |-> users,
                      userRoles |-> userRoles, otpSessions |-> otpSessions,
                      otpTokens |-> otpTokens]
           staged == [organizations |-> organizations1, users |-> users1,
                      userRoles |-> userRoles1, otpSessions |-> otpSessions1,
                      otpTokens |-> otpTokens1]
           after == transaction(before, staged, first <= 7)
       IN  /\ first > 7 => Len(otpSessions) < MaxOtpSessions /\ Len(otpTokens) < MaxOtpTokens
           /\ organizations' = after.organizations
           /\ users' = after.users
           /\ userRoles' = after.userRoles
           /\ otpSessions' = after.otpSessions
           /\ otpTokens' = after.otpTokens
           /\ IF first > 7
              THEN Finish(r, Resp(201, "OK", "Registration successful", now + OtpTokenLifetime))
              ELSE IF first = 4 /\ "OWNER" \notin roles
              THEN Finish(r, ownerRoleNotFound)
              ELSE FinishLog(r, "Internal error during registration", internalError)
    /\ UNCHANGED <<env, otpAttempts, sessions, roles, rolePermissions, clients>>

\* The registration transaction on a database that answers every statement.
RegisterTx(r, otpCode) ==
    \E suffixes \in [1..SLUG_MAX_ATTEMPTS -> SlugSuffixes] :
        RegisterTxRun(r, otpCode, suffixes, 0)

\* The registration transaction on a database that fails one statement.
RegisterTxFault(r, otpCode) ==
    \E suffixes \in [1..SLUG_MAX_ATTEMPTS -> SlugSuffixes], fault \in RegisterTxSteps :
        RegisterTxRun(r, otpCode, suffixes, fault)

\* ------------------------------------------------------------------------
\* EmailVerificationService.verifyEmail
\* ------------------------------------------------------------------------
\* Math.max(0, Math.ceil((retryAfter.getTime() - Date.now()) / 1000))
WaitSeconds(retryAfter, t) ==
    IF CeilDiv(retryAfter - t, ClockTicksPerSecond) > 0
    THEN CeilDiv(retryAfter - t, ClockTicksPerSecond)
    ELSE 0

verificationSessionLocked(retryAfter, t) ==
    Resp(429, "SESSION_LOCKED", "Too many failed attempts", WaitSeconds(retryAfter, t))

noActiveVerificationSession == Resp(400, "NO_ACTIVE_SESSION", "No active verification session", NULL)

verificationSessionExpired == Resp(400, "SESSION_EXPIRED", "Verification session expired", NULL)

noValidVerificationCode == Resp(400, "NO_VALID_CODE", "No valid code available", NULL)

verificationCodeExpired == Resp(400, "CODE_EXPIRED", "Code expired", NULL)

invalidVerificationCode(attemptsRemaining) ==
    Resp(400, "INVALID_CODE", "Invalid code", attemptsRemaining)

AttemptsRemaining(session) ==
    IF session.maxAttempts - session.attemptCount > 0
    THEN session.maxAttempts - session.attemptCount
    ELSE 0

VerifyStart(r, email, code) ==
    /\ Free(r)
    /\ req' = [req EXCEPT ![r] = [Idle EXCEPT !.op = "verify", !.pc = "user",
                                              !.email = email, !.code = code]]
    /\ UNCHANGED <<env, db>>

\* verifyEmail without its early exit for a verified user.
VerifyUserUnchecked(r) ==
    /\ At(r, "verify", "user")
    /\ Goto(r, "session", req[r])
    /\ UNCHANGED <<env, db>>

VerifyUser(r) ==
    /\ At(r, "verify", "user")
    /\ LET existingUser == getUserByEmail(users, req[r].email)
       IN  IF existingUser.exists /\ existingUser.verified
           THEN Finish(r, Resp(200, "OK", "Email already verified", NULL))
           ELSE Goto(r, "session", req[r])
    /\ UNCHANGED <<env, db>>

\* verifyEmail whose session lock also blocks at the instant lockUntil.
VerifySessionLockInclusive(r) ==
    /\ At(r, "verify", "session")
    /\ LET sid == findActiveOtpSession(otpSessions, req[r].email)
       IN  IF sid = NULL
           THEN Finish(r, noActiveVerificationSession)
           ELSE IF otpSessions[sid].expiresAt < now
           THEN Finish(r, verificationSessionExpired)
           ELSE IF otpSessions[sid].lockUntil # NULL /\ otpSessions[sid].lockUntil >= now
           THEN Finish(r, verificationSessionLocked(otpSessions[sid].lockUntil, now))
           ELSE Goto(r, "tokens", [req[r] EXCEPT !.sid = sid, !.t = now])
    /\ UNCHANGED <<env, db>>

VerifySession(r) ==
    /\ At(r, "verify", "session")
    /\ LET sid == findActiveOtpSession(otpSessions, req[r].email)
       IN  IF sid = NULL
           THEN Finish(r, noActiveVerificationSession)
           ELSE IF otpSessions[sid].expiresAt < now
           THEN Finish(r, verificationSessionExpired)
           ELSE IF otpSessions[sid].lockUntil # NULL /\ otpSessions[sid].lockUntil > now
           THEN Finish(r, verificationSessionLocked(otpSessions[sid].lockUntil, now))
           ELSE Goto(r, "tokens", [req[r] EXCEPT !.sid = sid, !.t = now])
    /\ UNCHANGED <<env, db>>

VerifyTokens(r) ==
    /\ At(r, "verify", "tokens")
    /\ LET tid == Newest(findUnconsumedOtpTokens(otpTokens, req[r].sid))
       IN  IF tid = NULL
           THEN Finish(r, noValidVerificationCode)
           ELSE IF otpTokens[tid].expiresAt < req[r].t
           THEN Finish(r, verificationCodeExpired)
           ELSE IF ~verifyOTP(req[r].code, otpTokens[tid].codeHash)
           THEN Goto(r, "inc_read", [req[r] EXCEPT !.tid = tid])
           ELSE Goto(r, "tx", [req[r] EXCEPT !.tid = tid])
    /\ UNCHANGED <<env, db>>

\* The wrong codes counted so far, over all OTP sessions.
RECURSIVE AttemptsCounted(_)
AttemptsCounted(ss) ==
    IF ss = <<>> THEN 0 ELSE Head(ss).attemptCount + AttemptsCounted(Tail(ss))

\* incrementOtpSessionAttempts: findUnique, then update, as two calls.
VerifyIncRead(r) ==
    /\ At(r, "verify", "inc_read")
    /\ Goto(r, "inc_write", [req[r] EXCEPT !.cnt = otpSessions[req[r].sid].attemptCount])
    /\ UNCHANGED <<env, db>>

\* The update, while fewer than cap wrong codes have been counted.
VerifyIncWriteWithin(r, cap) ==
    /\ At(r, "verify", "inc_write")
    /\ AttemptsCounted(otpSessions) < cap
    /\ otpSessions' = incrementOtpSessionAttempts(otpSessions, req[r].sid, req[r].cnt, now)
    /\ Goto(r, "attempt", [req[r] EXCEPT !.cnt = AttemptsRemaining(otpSessions'[req[r].sid])])
    /\ UNCHANGED <<env, users, otpTokens, otpAttempts, sessions, tenancy>>

VerifyIncWrite(r) == VerifyIncWriteWithin(r, MaxOtpFailures)

VerifyAttempt(r) ==
    /\ At(r, "verify", "attempt")
    /\ otpAttempts' = createOtpAttempt(otpAttempts, req[r].sid, req[r].tid, "FAILURE", "INVALID_CODE")
    /\ Finish(r, invalidVerificationCode(req[r].cnt))
    /\ UNCHANGED <<env, users, otpSessions, otpTokens, sessions, tenancy>>

\* The statements of the verification transaction: 1 markOtpTokenConsumed,
\* 2 markOtpSessionInactive, 3 markUserVerified, 4 createOtpAttempt,
\* 5 auditLog.create.
VerifyTxSteps == 1..5

\* The success transaction of verifyEmail; fault is the statement at which
\* the database fails (0: at none).
VerifyTxRun(r, fault) ==
    /\ At(r, "verify", "tx")
    /\ LET first == IF fault = 0 THEN 6 ELSE fault
           otpTokens1 == IF first > 1 THEN markOtpTokenConsumed(otpTokens, req[r].tid, now)
                         ELSE otpTokens
           otpSessions1 == IF first > 2 THEN markOtpSessionInactive(otpSessions, req[r].sid)
                           ELSE otpSessions
           users1 == IF first > 3 THEN markUserVerified(users, otpSessions[req[r].sid].email)
                     ELSE users
           otpAttempts1 == IF first > 4
                           THEN createOtpAttempt(otpAttempts, req[r].sid, req[r].tid, "SUCCESS", "")
                           ELSE otpAttempts
           before == [otpTokens |-> otpTokens, otpSessions |-> otpSessions,
                      users |-> users, otpAttempts |-> otpAttempts]
           staged == [otpTokens |-> otpTokens1, otpSessions |-> otpSessions1,
                      users |-> users1, otpAttempts |-> otpAttempts1]
           after == transaction(before, staged, first <= 5)
       IN  /\ otpTokens' = after.otpTokens
           /\ otpSessions' = after.otpSessions
           /\ users' = after.users
           /\ otpAttempts' = after.otpAttempts
           /\ IF first > 5
              THEN Finish(r, Resp(200, "OK", "Email verified successfully", NULL))
              ELSE FinishLog(r, "Internal error during email verification", internalError)
    /\ UNCHANGED <<env, sessions, tenancy>>

\* The transaction on a database that answers every statement.
VerifyTx(r) == VerifyTxRun(r, 0)

\* The transaction on a database that fails one statement.
VerifyTxFault(r) == \E fault \in VerifyTxSteps : VerifyTxRun(r, fault)

\* ------------------------------------------------------------------------
\* ResendService.resendCode
\* ------------------------------------------------------------------------
noVerificationSession == Resp(400, "NO_VERIFICATION_SESSION", "No verification session found", NULL)

tooManyResends == Resp(400, "TOO_MANY_RESENDS", "Too many resend attempts", NULL)

resendRateLimited(waitSeconds) ==
    Resp(429, "RESEND_RATE_LIMITED", "Please wait before requesting another code", waitSeconds)

ResendStart(r, email) ==
    /\ Free(r)
    /\ req' = [req EXCEPT ![r] = [Idle EXCEPT !.op = "resend", !.pc = "lock", !.email = email]]
    /\ UNCHANGED <<env, db>>

\* resendCode without its global lock check.
ResendLockSkipped(r) ==
    /\ At(r, "resend", "lock")
    /\ Goto(r, "user", req[r])
    /\ UNCHANGED <<env, db>>

\* Global rate limiting check.
ResendLock(r) ==
    /\ At(r, "resend", "lock")
    /\ LET activeLock == findSessionsWithActiveLocks(otpSessions, req[r].email, now)
       IN  IF activeLock # NULL
           THEN Finish(r, verificationSessionLocked(otpSessions[activeLock].lockUntil, now))
           ELSE Goto(r, "user", req[r])
    /\ UNCHANGED <<env, db>>

ResendUser(r) ==
    /\ At(r, "resend", "user")
    /\ LET existingUser == getUserByEmail(users, req[r].email)
       IN  IF existingUser.exists /\ existingUser.verified
           THEN Finish(r, Resp(200, "OK", "Email already verified", NULL))
           ELSE Goto(r, "session", req[r])
    /\ UNCHANGED <<env, db>>

\* Paths 1 to 5 of resendCode, decided on the session row just read.
ResendSession(r) ==
    /\ At(r, "resend", "session")
    /\ LET sid == findAnyOtpSession(otpSessions, req[r].email)
           session == otpSessions[sid]
           timeSinceLastSend == now - session.lastSentAt
       IN  IF sid = NULL
           THEN Finish(r, noVerificationSession)
           ELSE IF session.expiresAt < now
           THEN Goto(r, "replace", [req[r] EXCEPT !.sid = sid])
           ELSE IF session.lockUntil # NULL /\ session.lockUntil > now
           THEN Finish(r, verificationSessionLocked(session.lockUntil, now))
           ELSE IF session.resendCount >= MAX_RESENDS
           THEN Finish(r, tooManyResends)
           ELSE IF session.lastSentAt # NULL /\ timeSinceLastSend < ResendCooldown
           THEN Finish(r, resendRateLimited(CeilDiv(ResendCooldown - timeSinceLastSend,
                                                    ClockTicksPerSecond)))
           ELSE Goto(r, "rotate", [req[r] EXCEPT !.sid = sid, !.cnt = session.resendCount])
    /\ UNCHANGED <<env, db>>

\* createReplacementSession that forgets to mark the old session inactive.
createSessionBesideOld(ss, oldSession, email, t) == createOtpSession(ss, email, t)

\* The transaction of createReplacementSession, on the old session as read.
createReplacementSession(ss, oldSession, email, t) ==
    createOtpSession(markOtpSessionInactive(ss, oldSession), email, t)

ResendReplace(r, otpCode) ==
    /\ At(r, "resend", "replace")
    /\ Len(otpSessions) < MaxOtpSessions
    /\ Len(otpTokens) < MaxOtpTokens
    /\ otpSessions' = createReplacementSession(otpSessions, req[r].sid, req[r].email, now)
    /\ otpTokens' = createOtpToken(otpTokens, Len(otpSessions'), otpCode, now)
    /\ Finish(r, Resp(200, "OK", "New verification code sent", now + OtpTokenLifetime))
    /\ UNCHANGED <<env, users, otpAttempts, sessions, tenancy>>

\* A rotation that issues the new token beside the old ones.
rotateTokensKeepingOld(ts, sessionId, otpCode, t) == createOtpToken(ts, sessionId, otpCode, t)

\* The token rotation shared by rotateTokenInSession and forgotPassword:
\* invalidate, issue, and write the resend metadata from the session as read.
rotateTokens(ts, sessionId, otpCode, t) ==
    createOtpToken(invalidateSessionTokens(ts, sessionId, t), sessionId, otpCode, t)

\* rotateTokenInSession, in a token table that holds fewer than cap rows.
ResendRotateWithin(r, otpCode, cap) ==
    /\ At(r, "resend", "rotate")
    /\ Len(otpTokens) < cap
    /\ otpTokens' = rotateTokens(otpTokens, req[r].sid, otpCode, now)
    /\ otpSessions' = updateSessionResendMetadata(otpSessions, req[r].sid, req[r].cnt + 1, now)
    /\ otpAttempts' = createOtpAttempt(otpAttempts, req[r].sid, Len(otpTokens'), "SUCCESS", "TOKEN_ROTATION")
    /\ Finish(r, Resp(200, "OK", "New verification code sent", now + OtpTokenLifetime))
    /\ UNCHANGED <<env, users, sessions, tenancy>>

ResendRotate(r, otpCode) == ResendRotateWithin(r, otpCode, MaxOtpTokens)

\* ------------------------------------------------------------------------
\* ForgotPasswordService.forgotPassword and PasswordController.forgotPassword
\* ------------------------------------------------------------------------
ForgotMessage == "If this email exists, password reset instructions have been sent"

\* The service result of a branch that sends nothing.
forgotPasswordSilent == [success |-> TRUE, message |-> ForgotMessage, otpExpiresAt |-> NULL]

\* The service result of a branch that issued a token.
forgotPasswordSent(otpExpiresAt) ==
    [success |-> TRUE, message |-> ForgotMessage, otpExpiresAt |-> otpExpiresAt]

\* res.status(200).json({success, message, ...(otpExpiresAt && {otpExpiresAt})})
forgotPasswordResponse(result) ==
    Resp(200, IF result.success THEN "OK" ELSE "FAIL", result.message, result.otpExpiresAt)

ForgotStart(r, email) ==
    /\ Free(r)
    /\ req' = [req EXCEPT ![r] = [Idle EXCEPT !.op = "forgot", !.pc = "user", !.email = email]]
    /\ UNCHANGED <<env, db>>

ForgotUser(r) ==
    /\ At(r, "forgot", "user")
    /\ LET existingUser == findUserForLogin(users, req[r].email)
       IN  IF ~existingUser.exists
           THEN FinishLog(r, "Password reset requested for non-existent email",
                          forgotPasswordResponse(forgotPasswordSilent))
           ELSE Goto(r, "lock", req[r])
    /\ UNCHANGED <<env, db>>

\* forgotPassword without its lock check.
ForgotLockUnchecked(r) ==
    /\ At(r, "forgot", "lock")
    /\ Goto(r, "session", req[r])
    /\ UNCHANGED <<env, db>>

ForgotLock(r) ==
    /\ At(r, "forgot", "lock")
    /\ LET activeLock == findPasswordResetSessionsWithActiveLocks(otpSessions, req[r].email, now)
       IN  IF activeLock # NULL
           THEN FinishLog(r, "Password reset blocked by active session lock",
                          forgotPasswordResponse(forgotPasswordSilent))
           ELSE Goto(r, "session", req[r])
    /\ UNCHANGED <<env, db>>

ForgotSession(r) ==
    /\ At(r, "forgot", "session")
    /\ LET sid == findActivePasswordResetSession(otpSessions, req[r].email)
           existingSession == otpSessions[sid]
           timeSinceLastSent == now - existingSession.lastSentAt
       IN  IF sid # NULL
           THEN IF timeSinceLastSent < ResendCooldown
                THEN FinishLog(r, "Password reset rate limited",
                               forgotPasswordResponse(forgotPasswordSilent))
                ELSE IF existingSession.resendCount >= MAX_RESENDS
                THEN FinishLog(r, "Too many password reset resends",
                               forgotPasswordResponse(forgotPasswordSilent))
                ELSE Goto(r, "rotate", [req[r] EXCEPT !.sid = sid, !.t = now,
                                                      !.cnt = existingSession.resendCount])
           ELSE Goto(r, "create", req[r])
    /\ UNCHANGED <<env, db>>

ForgotRotate(r, otpCode) ==
    /\ At(r, "forgot", "rotate")
    /\ Len(otpTokens) < MaxOtpTokens
    /\ otpTokens' = rotateTokens(otpTokens, req[r].sid, otpCode, now)
    /\ otpSessions' = updateSessionResendMetadata(otpSessions, req[r].sid, req[r].cnt + 1, req[r].t)
    /\ FinishLog(r, "Password reset OTP token rotated",
                 forgotPasswordResponse(forgotPasswordSent(now + OtpTokenLifetime)))
    /\ UNCHANGED <<env, users, otpAttempts, sessions, tenancy>>

ForgotCreate(r, otpCode) ==
    /\ At(r, "forgot", "create")
    /\ Len(otpSessions) < MaxOtpSessions
    /\ Len(otpTokens) < MaxOtpTokens
    /\ otpSessions' = createPasswordResetOtpSession(otpSessions, req[r].email, now)
    /\ otpTokens' = createOtpToken(otpTokens, Len(otpSessions'), otpCode, now)
    /\ FinishLog(r, "Password reset OTP session created",
                 forgotPasswordResponse(forgotPasswordSent(now + OtpTokenLifetime)))
    /\ UNCHANGED <<env, users, otpAttempts, sessions, tenancy>>

\* The store calls that forgotPassword awaits.
ForgotStoreSteps == {"user", "lock", "session", "rotate", "create"}

\* A store call of forgotPassword throws (a transaction that throws writes
\* nothing), and the catch block answers.
ForgotFault(r) ==
    /\ req[r].op = "forgot"
    /\ req[r].pc \in ForgotStoreSteps
    /\ FinishLog(r, "Internal error during password reset request",
                 forgotPasswordResponse(forgotPasswordSilent))
    /\ UNCHANGED <<env, db>>

\* ------------------------------------------------------------------------
\* ResetPasswordService.resetPassword
\* ------------------------------------------------------------------------
noActivePasswordResetSession == Resp(400, "NO_ACTIVE_RESET_SESSION", "No active password reset session", NULL)

passwordResetSessionExpired == Resp(400, "RESET_SESSION_EXPIRED", "Password reset session expired", NULL)

passwordResetSessionLocked(retryAfter, t) ==
    Resp(429, "RESET_SESSION_LOCKED", "Too many failed attempts", WaitSeconds(retryAfter, t))

noValidPasswordResetCode == Resp(400, "NO_VALID_RESET_CODE", "No valid reset code available", NULL)

passwordResetCodeExpired == Resp(400, "RESET_CODE_EXPIRED", "Reset code expired", NULL)

invalidPasswordResetCode(attemptsRemaining) ==
    Resp(400, "INVALID_RESET_CODE", "Invalid reset code", attemptsRemaining)

ResetStart(r, email, code, newpw) ==
    /\ Free(r)
    /\ req' = [req EXCEPT ![r] = [Idle EXCEPT !.op = "reset", !.pc = "user", !.email = email,
                                              !.code = code, !.newpw = newpw]]
    /\ UNCHANGED <<env, db>>

\* resetPassword that answers an unknown address with its own error.
ResetUserRevealing(r) ==
    /\ At(r, "reset", "user")
    /\ LET existingUser == findUserForLogin(users, req[r].email)
       IN  IF ~existingUser.exists
           THEN Finish(r, Resp(404, "USER_NOT_FOUND", "User not found", NULL))
           ELSE Goto(r, "session", [req[r] EXCEPT !.flag = ~existingUser.verified])
    /\ UNCHANGED <<env, db>>

ResetUser(r) ==
    /\ At(r, "reset", "user")
    /\ LET existingUser == findUserForLogin(users, req[r].email)
       IN  IF ~existingUser.exists
           THEN Finish(r, noActivePasswordResetSession)
           ELSE Goto(r, "session", [req[r] EXCEPT !.flag = ~existingUser.verified])
    /\ UNCHANGED <<env, db>>

ResetSession(r) ==
    /\ At(r, "reset", "session")
    /\ LET sid == findActivePasswordResetSession(otpSessions, req[r].email)
       IN  IF sid = NULL
           THEN Finish(r, noActivePasswordResetSession)
           ELSE IF otpSessions[sid].expiresAt < now
           THEN Finish(r, passwordResetSessionExpired)
           ELSE IF otpSessions[sid].lockUntil # NULL /\ otpSessions[sid].lockUntil > now
           THEN Finish(r, passwordResetSessionLocked(otpSessions[sid].lockUntil, now))
           ELSE Goto(r, "tokens", [req[r] EXCEPT !.sid = sid, !.t = now])
    /\ UNCHANGED <<env, db>>

ResetTokens(r) ==
    /\ At(r, "reset", "tokens")
    /\ LET tid == Newest(findUnconsumedOtpTokens(otpTokens, req[r].sid))
       IN  IF tid = NULL
           THEN Finish(r, noValidPasswordResetCode)
           ELSE IF otpTokens[tid].expiresAt < req[r].t
           THEN Finish(r, passwordResetCodeExpired)
           ELSE IF ~verifyOTP(req[r].code, otpTokens[tid].codeHash)
           THEN Goto(r, "inc_read", [req[r] EXCEPT !.tid = tid])
           ELSE Goto(r, "tx", [req[r] EXCEPT !.tid = tid])
    /\ UNCHANGED <<env, db>>

ResetIncRead(r) ==
    /\ At(r, "reset", "inc_read")
    /\ Goto(r, "inc_write", [req[r] EXCEPT !.cnt = otpSessions[req[r].sid].attemptCount])
    /\ UNCHANGED <<env, db>>

ResetIncWriteWithin(r, cap) ==
    /\ At(r, "reset", "inc_write")
    /\ AttemptsCounted(otpSessions) < cap
    /\ otpSessions' = incrementOtpSessionAttempts(otpSessions, req[r].sid, req[r].cnt, now)
    /\ Goto(r, "attempt", [req[r] EXCEPT !.cnt = AttemptsRemaining(otpSessions'[req[r].sid])])
    /\ UNCHANGED <<env, users, otpTokens, otpAttempts, sessions, tenancy>>

ResetIncWrite(r) == ResetIncWriteWithin(r, MaxOtpFailures)

ResetAttempt(r) ==
    /\ At(r, "reset", "attempt")
    /\ otpAttempts' = createPasswordResetOtpAttempt(otpAttempts, req[r].sid, req[r].tid, "FAILURE", "INVALID_CODE")
    /\ Finish(r, invalidPasswordResetCode(req[r].cnt))
    /\ UNCHANGED <<env, users, otpSessions, otpTokens, sessions, tenancy>>

\* PATH 7: the success transaction.
ResetTx(r) ==
    /\ At(r, "reset", "tx")
    /\ otpTokens' = markOtpTokenConsumed(otpTokens, req[r].tid, now)
    /\ otpSessions' = markOtpSessionInactive(otpSessions, req[r].sid)
    /\ users' = updateUserPassword(users, req[r].email, hashPassword(req[r].newpw))
    /\ sessions' = revokeUserSessions(sessions, req[r].email, "password_changed", now)
    /\ otpAttempts' = createPasswordResetOtpAttempt(otpAttempts, req[r].sid, req[r].tid, "SUCCESS", "")
    /\ Finish(r, Resp(200, "OK", "Password reset successfully", NULL))
    /\ UNCHANGED <<env, tenancy>>

\* ------------------------------------------------------------------------
\* LoginService.login
\* ------------------------------------------------------------------------
invalidCredentials == Resp(401, "INVALID_CREDENTIALS", "Invalid email or password.", NULL)

accountLocked == Resp(401, "ACCOUNT_LOCKED", "Account locked due to too many failed login attempts. Please reset your password to unlock.", NULL)

accountNotVerified == Resp(403, "ACCOUNT_NOT_VERIFIED", "Email not verified. Please check your email and verify your account.", NULL)

organizationInactive == Resp(403, "ORGANIZATION_INACTIVE", "Organization is inactive. Please contact support for assistance.", NULL)

LoginStart(r, email, pw) ==
    /\ Free(r)
    /\ req' = [req EXCEPT ![r] = [Idle EXCEPT !.op = "login", !.pc = "user",
                                              !.email = email, !.pw = pw]]
    /\ UNCHANGED <<env, db>>

\* login that answers an unknown address with its own error.
LoginUserRevealing(r) ==
    /\ At(r, "login", "user")
    /\ LET user == findUserForLogin(users, req[r].email)
       IN  IF ~user.exists
           THEN FinishLog(r, "Login failed - user not found",
                          Resp(404, "USER_NOT_FOUND", "User not found", NULL))
           ELSE IF ~user.verified
           THEN Finish(r, accountNotVerified)
           ELSE IF user.isLocked
           THEN Finish(r, accountLocked)
           ELSE IF user.orgDeleted
           THEN Finish(r, organizationInactive)
           ELSE IF ~verifyPassword(req[r].pw, user.password)
           THEN Goto(r, "inc", [req[r] EXCEPT !.cnt = user.loginAttempts])
           ELSE Goto(r, "tx", req[r])
    /\ UNCHANGED <<env, db>>

\* login without the verification check.
LoginUserUnverifiedAdmitted(r) ==
    /\ At(r, "login", "user")
    /\ LET user == findUserForLogin(users, req[r].email)
       IN  IF ~user.exists
           THEN FinishLog(r, "Login failed - user not found", invalidCredentials)
           ELSE IF user.isLocked
           THEN Finish(r, accountLocked)
           ELSE IF user.orgDeleted
           THEN Finish(r, organizationInactive)
           ELSE IF ~verifyPassword(req[r].pw, user.password)
           THEN Goto(r, "inc", [req[r] EXCEPT !.cnt = user.loginAttempts])
           ELSE Goto(r, "tx", req[r])
    /\ UNCHANGED <<env, db>>

\* login with the lock check ahead of the verification check.
LoginUserLockedFirst(r) ==
    /\ At(r, "login", "user")
    /\ LET user == findUserForLogin(users, req[r].email)
       IN  IF ~user.exists
           THEN FinishLog(r, "Login failed - user not found", invalidCredentials)
           ELSE IF user.isLocked
           THEN Finish(r, accountLocked)
           ELSE IF ~user.verified
           THEN Finish(r, accountNotVerified)
           ELSE IF user.orgDeleted
           THEN Finish(r, organizationInactive)
           ELSE IF ~verifyPassword(req[r].pw, user.password)
           THEN Goto(r, "inc", [req[r] EXCEPT !.cnt = user.loginAttempts])
           ELSE Goto(r, "tx", req[r])
    /\ UNCHANGED <<env, db>>

\* Steps 1 to 5, decided on the user row just read.
LoginUser(r) ==
    /\ At(r, "login", "user")
    /\ LET user == findUserForLogin(users, req[r].email)
       IN  IF ~user.exists
           THEN FinishLog(r, "Login failed - user not found", invalidCredentials)
           ELSE IF ~user.verified
           THEN Finish(r, accountNotVerified)
           ELSE IF user.isLocked
           THEN Finish(r, accountLocked)
           ELSE IF user.orgDeleted
           THEN Finish(r, organizationInactive)
           ELSE IF ~verifyPassword(req[r].pw, user.password)
           THEN Goto(r, "inc", [req[r] EXCEPT !.cnt = user.loginAttempts])
           ELSE Goto(r, "tx", req[r])
    /\ UNCHANGED <<env, db>>

\* The failed attempt is written from the loginAttempts the request read.
LoginInc(r) ==
    /\ At(r, "login", "inc")
    /\ users' = incrementUserLoginAttempts(users, req[r].email, req[r].cnt)
    /\ FinishLog(r, "Login failed - invalid password", invalidCredentials)
    /\ UNCHANGED <<env, otpSessions, otpTokens, otpAttempts, sessions, tenancy>>

\* Steps 6 to 11: the success transaction.
LoginTx(r) ==
    /\ At(r, "login", "tx")
    /\ Len(sessions) < MaxSessions
    /\ users' = resetUserLoginAttempts(users, req[r].email)
    /\ sessions' = createSession(sessions, req[r].email, now)
    /\ req' = [req EXCEPT ![r].pc = "done", ![r].auth = Len(sessions'),
                          ![r].resp = Resp(200, "OK", "Login successful", Len(sessions'))]
    /\ UNCHANGED <<env, otpSessions, otpTokens, otpAttempts, tenancy>>

\* ------------------------------------------------------------------------
\* authenticate middleware (and GET /me behind it)
\* ------------------------------------------------------------------------
authenticationRequired == Resp(401, "AUTH_REQUIRED", "Authentication required", NULL)

invalidSession == Resp(401, "SESSION_INVALID", "Invalid session", NULL)

sessionExpired == Resp(401, "SESSION_EXPIRED", "Session expired", NULL)

sessionRevoked == Resp(401, "SESSION_REVOKED", "Session terminated", NULL)

authEmailNotVerified == Resp(403, "EMAIL_NOT_VERIFIED", "Email verification required", NULL)

authAccountLocked == Resp(403, "ACCOUNT_LOCKED", "Account locked", NULL)

authOrganizationInactive == Resp(403, "ORG_INACTIVE", "Organization inactive", NULL)

dataIntegrityError == Resp(500, "DATA_INTEGRITY_ERROR", "Authentication data integrity error", NULL)

\* authenticate with the lock check ahead of the verification check.
authenticateLockedFirst(ss, us, token, t) ==
    LET sid == findSessionForAuth(ss, token)
        session == ss[sid]
        user == us[session.userId]
    IN  IF token = NULL THEN authenticationRequired
        ELSE IF sid = NULL THEN invalidSession
        ELSE IF session.revokedAt # NULL THEN sessionRevoked
        ELSE IF session.expiresAt < t THEN sessionExpired
        ELSE IF ~user.exists THEN dataIntegrityError
        ELSE IF user.isLocked THEN authAccountLocked
        ELSE IF ~user.verified THEN authEmailNotVerified
        ELSE IF user.organizationId = NULL THEN dataIntegrityError
        ELSE IF user.orgDeleted THEN authOrganizationInactive
        ELSE Resp(200, "OK", "Request authenticated", sid)

\* authenticate that also rejects a session at the instant expiresAt.
authenticateExpiryInclusive(ss, us, token, t) ==
    LET sid == findSessionForAuth(ss, token)
        session == ss[sid]
        user == us[session.userId]
    IN  IF token = NULL THEN authenticationRequired
        ELSE IF sid = NULL THEN invalidSession
        ELSE IF session.revokedAt # NULL THEN sessionRevoked
        ELSE IF session.expiresAt <= t THEN sessionExpired
        ELSE IF ~user.exists THEN dataIntegrityError
        ELSE IF ~user.verified THEN authEmailNotVerified
        ELSE IF user.isLocked THEN authAccountLocked
        ELSE IF user.organizationId = NULL THEN dataIntegrityError
        ELSE IF user.orgDeleted THEN authOrganizationInactive
        ELSE Resp(200, "OK", "Request authenticated", sid)

\* What authenticate answers for a cookie token at time t: the error it
\* raises, or 200 with the session id it puts in req.auth.
authenticate(ss, us, token, t) ==
    LET sid == findSessionForAuth(ss, token)
        session == ss[sid]
        user == us[session.userId]
    IN  IF token = NULL THEN authenticationRequired
        ELSE IF sid = NULL THEN invalidSession
        ELSE IF session.revokedAt # NULL THEN sessionRevoked
        ELSE IF session.expiresAt < t THEN sessionExpired
        ELSE IF ~user.exists THEN dataIntegrityError
        ELSE IF ~user.verified THEN authEmailNotVerified
        ELSE IF user.isLocked THEN authAccountLocked
        ELSE IF user.organizationId = NULL THEN dataIntegrityError
        ELSE IF user.orgDeleted THEN authOrganizationInactive
        ELSE Resp(200, "OK", "Request authenticated", sid)

\* clearAuthCookie(res) on the way to an answer: before the throw for a
\* session not found, revoked or expired and for a missing user or
\* organization, and in the catch block for every 401.
clearsAuthCookie(answer) == answer.status = 401 \/ answer = dataIntegrityError

\* The throttle with > in the place of >=.
activityDueStrict(ss, sid, t) == t - ss[sid].lastActivity > ActivityThreshold

\* Step 7: the lastActivity write authenticate leaves in the background.
activityDue(ss, sid, t) == t - ss[sid].lastActivity >= ActivityThreshold

Authenticated(r, nextpc) ==
    LET answer == authenticate(sessions, users, req[r].tok, now)
    IN  IF answer.status # 200
        THEN /\ IF clearsAuthCookie(answer)
                THEN FinishCleared(r, "", answer)
                ELSE Finish(r, answer)
             /\ UNCHANGED bg
        ELSE /\ IF nextpc = "done"
                THEN req' = [req EXCEPT ![r].pc = "done", ![r].auth = answer.extra,
                                        ![r].resp = answer]
                ELSE Goto(r, nextpc, [req[r] EXCEPT !.auth = answer.extra])
             /\ bg' = IF activityDue(sessions, answer.extra, now)
                      THEN bg \cup {answer.extra} ELSE bg

MeStart(r, token) ==
    /\ Free(r)
    /\ req' = [req EXCEPT ![r] = [Idle EXCEPT !.op = "me", !.pc = "auth", !.tok = token]]
    /\ UNCHANGED <<env, db>>

MeAuth(r) ==
    /\ At(r, "me", "auth")
    /\ Authenticated(r, "done")
    /\ UNCHANGED <<now, ticks, db>>

\* updateSessionActivity, not awaited by the request that issued it.
ActivityWrite(sid) ==
    /\ sid \in bg
    /\ sessions' = updateSessionActivity(sessions, sid, now)
    /\ bg' = bg \ {sid}
    /\ UNCHANGED <<now, ticks, users, otpSessions, otpTokens, otpAttempts, req, tenancy>>

\* updateSessionActivity rejects: the .catch logs the error, nothing is
\* written and no request hears of it.
ActivityFail(sid) ==
    /\ sid \in bg
    /\ bg' = bg \ {sid}
    /\ UNCHANGED <<now, ticks, db, req>>

\* ------------------------------------------------------------------------
\* LogoutService.logout
\* ------------------------------------------------------------------------
logoutResult(sessionsRevoked) == Resp(200, "OK", "Logged out successfully", sessionsRevoked)

LogoutStart(r, token, everywhere) ==
    /\ Free(r)
    /\ req' = [req EXCEPT ![r] = [Idle EXCEPT !.op = "logout", !.pc = "find", !.tok = token,
                                              !.everywhere = everywhere]]
    /\ UNCHANGED <<env, db>>

LogoutFind(r) ==
    /\ At(r, "logout", "find")
    /\ LET sid == findSessionByTokenHash(sessions, req[r].tok)
           session == sessions[sid]
       IN  IF req[r].tok = NULL
           THEN FinishCleared(r, "", logoutResult(0))
           ELSE IF sid = NULL
           THEN FinishCleared(r, "", logoutResult(0))
           ELSE IF session.revokedAt # NULL \/ session.expiresAt < now
           THEN FinishCleared(r, "", logoutResult(0))
           ELSE Goto(r, "tx", [req[r] EXCEPT !.auth = sid])
    /\ UNCHANGED <<env, db>>

RevokedCount(before, after) ==
    Cardinality({i \in Indices(before) : before[i].revokedAt = NULL /\ after[i].revokedAt # NULL})

LogoutTx(r) ==
    /\ At(r, "logout", "tx")
    /\ sessions' = IF req[r].everywhere
                   THEN revokeUserSessions(sessions, sessions[req[r].auth].userId, "logout_everywhere", now)
                   ELSE revokeSession(sessions, req[r].auth, "logout", now)
    /\ FinishCleared(r, "", logoutResult(IF req[r].everywhere
                                         THEN RevokedCount(sessions, sessions') ELSE 1))
    /\ UNCHANGED <<env, users, otpSessions, otpTokens, otpAttempts, tenancy>>

\* The error of a store call goes to the client, the cookie stays.
LogoutFaultUncaught(r) ==
    /\ req[r].op = "logout"
    /\ \/ req[r].pc = "find" /\ req[r].tok # NULL
       \/ req[r].pc = "tx"
    /\ FinishLog(r, "Internal error during logout", internalError)
    /\ UNCHANGED <<env, db>>

\* findSessionByTokenHash or the transaction throws (a transaction that
\* throws writes nothing), and the catch block answers.
LogoutFault(r) ==
    /\ req[r].op = "logout"
    /\ \/ req[r].pc = "find" /\ req[r].tok # NULL
       \/ req[r].pc = "tx"
    /\ FinishCleared(r, "Internal error during logout - proceeding with logout anyway",
                     logoutResult(0))
    /\ UNCHANGED <<env, db>>

\* ------------------------------------------------------------------------
\* ChangePasswordService.changePassword, behind authenticate
\* ------------------------------------------------------------------------
invalidCurrentPassword == Resp(400, "INVALID_CURRENT_PASSWORD", "Current password is incorrect", NULL)

userNotFound == Resp(404, "", "User not found", NULL)

ChangeStart(r, token, currentPassword, newPassword) ==
    /\ Free(r)
    /\ req' = [req EXCEPT ![r] = [Idle EXCEPT !.op = "change", !.pc = "auth", !.tok = token,
                                              !.pw = currentPassword, !.newpw = newPassword]]
    /\ UNCHANGED <<env, db>>

ChangeAuth(r) ==
    /\ At(r, "change", "auth")
    /\ Authenticated(r, "user")
    /\ UNCHANGED <<now, ticks, db>>

\* findUserById with the userId of req.auth, then the current password check.
ChangeUser(r) ==
    /\ At(r, "change", "user")
    /\ LET user == users[sessions[req[r].auth].userId]
       IN  IF ~user.exists
           THEN Finish(r, userNotFound)
           ELSE IF ~verifyPassword(req[r].pw, user.password)
           THEN Finish(r, invalidCurrentPassword)
           ELSE Goto(r, "tx", req[r])
    /\ UNCHANGED <<env, db>>

ChangeTx(r) ==
    /\ At(r, "change", "tx")
    /\ users' = updateUserPasswordOnly(users, sessions[req[r].auth].userId, hashPassword(req[r].newpw))
    /\ sessions' = revokeUserSessionsExcept(sessions, sessions[req[r].auth].userId, req[r].auth,
                                            "password_changed", now)
    /\ Finish(r, Resp(200, "OK", "Password changed successfully", NULL))
    /\ UNCHANGED <<env, otpSessions, otpTokens, otpAttempts, tenancy>>

\* ------------------------------------------------------------------------
\* requirePermission middleware and GET /clients behind it
\* ------------------------------------------------------------------------
forbidden(message) == Resp(403, "", message, NULL)

findUserById(us, userId) == us[userId]

\* GET /clients: authenticate, requirePermission("clients", "read"), getClients.
ClientsStart(r, token) ==
    /\ Free(r)
    /\ req' = [req EXCEPT ![r] = [Idle EXCEPT !.op = "clients", !.pc = "auth", !.tok = token,
                                              !.resource = "clients", !.action = "read"]]
    /\ UNCHANGED <<env, db>>

\* A route behind authenticate and requirePermission(resource, action).
GuardStart(r, token, resource, action) ==
    /\ Free(r)
    /\ req' = [req EXCEPT ![r] = [Idle EXCEPT !.op = "guard", !.pc = "auth", !.tok = token,
                                              !.resource = resource, !.action = action]]
    /\ UNCHANGED <<env, db>>

GuardAuth(r) ==
    /\ req[r].op \in {"clients", "guard"}
    /\ req[r].pc = "auth"
    /\ Authenticated(r, "permit")
    /\ UNCHANGED <<now, ticks, db>>

\* The scope that getClients applies without looking at the permissions.
scopeAlwaysAll(canAccessAll) == [canAccessAll |-> TRUE, filterType |-> "organization"]

scope(canAccessAll) ==
    [canAccessAll |-> canAccessAll,
     filterType |-> IF canAccessAll THEN "organization" ELSE "own"]

\* requirePermission(resource, action): findUserById, hasPermission, the
\* scope, req.userContext and next().
RequirePermission(r) ==
    /\ req[r].op \in {"clients", "guard"}
    /\ req[r].pc = "permit"
    /\ LET userId == sessions[req[r].auth].userId
           user == findUserById(users, userId)
           resource == req[r].resource
           action == req[r].action
           canAccessAll == \/ hasPermission(userRoles, rolePermissions, userId, resource, "*")
                           \/ hasPermission(userRoles, rolePermissions, userId, "*", "*")
           userContext == [userId |-> userId, sessionId |-> req[r].auth,
                           organizationId |-> user.organizationId,
                           permissions |-> flattenUserPermissions(userRoles, rolePermissions, userId),
                           canAccessAll |-> scope(canAccessAll).canAccessAll,
                           filterType |-> scope(canAccessAll).filterType]
       IN  IF ~user.exists
           THEN FinishLog(r, "User not found during authorization - data integrity issue",
                          forbidden("Access denied"))
           ELSE IF ~hasPermission(userRoles, rolePermissions, userId, resource, action)
           THEN FinishLog(r, "Permission denied - insufficient privileges",
                          forbidden("Missing permission: " \o permissionString(resource, action)))
           ELSE IF req[r].op = "guard"
           THEN req' = [req EXCEPT ![r].pc = "done", ![r].ctx = userContext,
                                   ![r].log = "Authorization successful",
                                   ![r].resp = Resp(200, "OK", "next()", NULL)]
           ELSE Goto(r, "query", [req[r] EXCEPT !.ctx = userContext])
    /\ UNCHANGED <<env, db>>

\* GetClientsService.getClients with the userContext of the request.
ClientsQuery(r) ==
    /\ At(r, "clients", "query")
    /\ LET filters == [organizationId |-> req[r].ctx.organizationId,
                       createdById |-> IF req[r].ctx.filterType = "own"
                                       THEN req[r].ctx.userId ELSE ""]
           found == findClientsForUser(clients, filters)
       IN  req' = [req EXCEPT ![r].pc = "done", ![r].rows = found,
                              ![r].log = "Clients query executed successfully",
                              ![r].resp = Resp(200, "OK", "Clients retrieved successfully",
                                               Cardinality(found))]
    /\ UNCHANGED <<env, db>>

\* ------------------------------------------------------------------------
\* Runs
\* ------------------------------------------------------------------------
\* No request is in flight.
Quiet == \A r \in Procs : Free(r)

\* Time passes between two requests.
Between(d) == Quiet /\ Tick(d)

Register(P, E, PW, G) ==
    \E r \in P :
        \/ \E email \in E, pw \in PW : RegisterStart(r, email, pw)
        \/ RegisterLookup(r)
        \/ \E otpCode \in G : RegisterTx(r, otpCode)

Verify(P, E) ==
    \E r \in P :
        \/ \E email \in E, code \in Codes : VerifyStart(r, email, code)
        \/ VerifyUser(r)
        \/ VerifySession(r)
        \/ VerifyTokens(r)
        \/ VerifyIncRead(r)
        \/ VerifyIncWrite(r)
        \/ VerifyAttempt(r)
        \/ VerifyTx(r)

Resend(P, E, G) ==
    \E r \in P :
        \/ \E email \in E : ResendStart(r, email)
        \/ ResendLock(r)
        \/ ResendUser(r)
        \/ ResendSession(r)
        \/ \E otpCode \in G : ResendReplace(r, otpCode)
        \/ \E otpCode \in G : ResendRotate(r, otpCode)

Forgot(P, E, G) ==
    \E r \in P :
        \/ \E email \in E : ForgotStart(r, email)
        \/ ForgotUser(r)
        \/ ForgotLock(r)
        \/ ForgotSession(r)
        \/ \E otpCode \in G : ForgotRotate(r, otpCode)
        \/ \E otpCode \in G : ForgotCreate(r, otpCode)

Reset(P, E, C, PW) ==
    \E r \in P :
        \/ \E email \in E, code \in C, newpw \in PW : ResetStart(r, email, code, newpw)
        \/ ResetUser(r)
        \/ ResetSession(r)
        \/ ResetTokens(r)
        \/ ResetIncRead(r)
        \/ ResetIncWrite(r)
        \/ ResetAttempt(r)
        \/ ResetTx(r)

Login(P, E, PW) ==
    \E r \in P :
        \/ \E email \in E, pw \in PW : LoginStart(r, email, pw)
        \/ LoginUser(r)
        \/ LoginInc(r)
        \/ LoginTx(r)

\* The cookies a client can hold: the tokens of the sessions issued so far.
Cookies == Indices(sessions)

Me(P) ==
    \E r \in P :
        \/ \E token \in Cookies : MeStart(r, token)
        \/ MeAuth(r)

Logout(P) ==
    \E r \in P :
        \/ \E token \in Cookies, everywhere \in BOOLEAN : LogoutStart(r, token, everywhere)
        \/ LogoutFind(r)
        \/ LogoutTx(r)

Change(P, PW) ==
    \E r \in P :
        \/ \E token \in Cookies, pw \in PW, newpw \in PW : ChangeStart(r, token, pw, newpw)
        \/ ChangeAuth(r)
        \/ ChangeUser(r)
        \/ ChangeTx(r)

\* One client, one request at a time: the OTP flows of both purposes.
OtpTicks == {ResendCooldown, OtpSessionLifetime + 1}

OtpSeqNext ==
    \/ Register({"r1"}, {"a@x.com"}, {"Passw0rd"}, {"111111"})
    \/ Verify({"r1"}, {"a@x.com"})
    \/ Resend({"r1"}, {"a@x.com"}, {"111111"})
    \/ Forgot({"r1"}, Emails, {"111111"})
    \/ Reset({"r1"}, {"a@x.com"}, Codes, {"Hunter22"})
    \/ \E d \in OtpTicks : Between(d)

SpecOtpSeq == Init /\ [][OtpSeqNext]_vars

\* Two clients whose requests overlap: registration and resend-code.
ResendConcNext ==
    \/ Register(Procs, {"a@x.com"}, {"Passw0rd"}, {"111111"})
    \/ Resend(Procs, {"a@x.com"}, {"111111"})
    \/ \E d \in OtpTicks : Between(d)

SpecResendConc == Init /\ [][ResendConcNext]_vars

\* Two clients whose requests overlap: registration and forgot-password.
ForgotConcNext ==
    \/ Register(Procs, {"a@x.com"}, {"Passw0rd"}, {"111111"})
    \/ Forgot(Procs, Emails, {"111111"})
    \/ \E d \in OtpTicks : Between(d)

SpecForgotConc == Init /\ [][ForgotConcNext]_vars

\* One client, one request at a time: registration, verification and login.
LoginSeqNext ==
    \/ Register({"r1"}, {"a@x.com"}, {"Passw0rd"}, {"111111"})
    \/ Verify({"r1"}, {"a@x.com"})
    \/ Login({"r1"}, Emails, Passwords)

SpecLoginSeq == Init /\ [][LoginSeqNext]_vars

\* The state that a registration of a@x.com, its verification and a
\* forgot-password request leave behind.
InitRecovering ==
    /\ now = 0
    /\ ticks = 0
    /\ users = [e \in Emails |->
                   IF e = "a@x.com"
                   THEN markUserVerified(createUser([u \in Emails |-> NoUser], e,
                                                    hashPassword("Passw0rd"), 1), e)[e]
                   ELSE NoUser]
    /\ otpSessions = createPasswordResetOtpSession(
                         markOtpSessionInactive(createOtpSession(<<>>, "a@x.com", 0), 1),
                         "a@x.com", 0)
    /\ otpTokens = createOtpToken(
                       markOtpTokenConsumed(createOtpToken(<<>>, 1, "111111", 0), 1, 0),
                       2, "111111", 0)
    /\ otpAttempts = createOtpAttempt(EmptyBag, 1, 1, "SUCCESS", "")
    /\ sessions = <<>>
    /\ bg = {}
    /\ req = [r \in Procs |-> Idle]
    /\ organizations = createOrganization(<<>>, OrgOf("a@x.com"),
                                          generateSlug(OrgOf("a@x.com")))
    /\ userRoles = assignOwnerRole(<<>>, "a@x.com")
    /\ roles = {"OWNER"}
    /\ rolePermissions = SeededRolePermissions
    /\ clients = <<>>

\* Two clients of one verified account whose requests overlap, with at most
\* MaxOverlapSessions sessions between them. Both log in;
\* the first also resets the password with the code that was sent, changes
\* the password, logs out, and asks for verify-email (which answers a
\* verified user at its first step).
AccountConcNext ==
    \/ \E r \in Procs, pw \in Passwords : LoginStart(r, "a@x.com", pw)
    \/ \E r \in Procs : LoginUser(r)
    \/ \E r \in Procs : LoginInc(r)
    \/ \E r \in Procs : Len(sessions) < MaxOverlapSessions /\ LoginTx(r)
    \/ ResetStart("r1", "a@x.com", "111111", "Hunter22")
    \/ ResetUser("r1")
    \/ ResetSession("r1")
    \/ ResetTokens("r1")
    \/ ResetTx("r1")
    \/ Change({"r1"}, Passwords)
    \/ Logout({"r1"})
    \/ VerifyStart("r1", "a@x.com", "111111")
    \/ VerifyUser("r1")

SpecAccountConc == InitRecovering /\ [][AccountConcNext]_vars

\* The state that the registrations of both addresses and their
\* verifications leave behind.
InitVerified ==
    /\ now = 0
    /\ ticks = 0
    /\ users = [e \in Emails |->
                   markUserVerified(createUser([u \in Emails |-> NoUser], e,
                                               hashPassword("Passw0rd"),
                                               IF e = "a@x.com" THEN 1 ELSE 2), e)[e]]
    /\ otpSessions = markOtpSessionInactive(
                         createOtpSession(
                             markOtpSessionInactive(createOtpSession(<<>>, "a@x.com", 0), 1),
                             "b@x.com", 0), 2)
    /\ otpTokens = markOtpTokenConsumed(
                       createOtpToken(
                           markOtpTokenConsumed(createOtpToken(<<>>, 1, "111111", 0), 1, 0),
                           2, "111111", 0), 2, 0)
    /\ otpAttempts = createOtpAttempt(createOtpAttempt(EmptyBag, 1, 1, "SUCCESS", ""),
                                      2, 2, "SUCCESS", "")
    /\ sessions = <<>>
    /\ bg = {}
    /\ req = [r \in Procs |-> Idle]
    /\ organizations = createOrganization(
                           createOrganization(<<>>, OrgOf("a@x.com"),
                                              generateSlug(OrgOf("a@x.com"))),
                           OrgOf("b@x.com"), generateSlug(OrgOf("b@x.com")))
    /\ userRoles = assignOwnerRole(assignOwnerRole(<<>>, "a@x.com"), "b@x.com")
    /\ roles = {"OWNER"}
    /\ rolePermissions = SeededRolePermissions
    /\ clients = <<>>

\* One client, one request at a time, on two verified accounts: login,
\* authenticated requests, forgot-password and reset-password of the first
\* account (one code sent, and that code submitted), and the time that
\* takes a session past its expiry.
SessionTicks == {SessionLifetime + 1}

ResetSeqNext ==
    \/ Login({"r1"}, Emails, {"Passw0rd"})
    \/ Me({"r1"})
    \/ ForgotStart("r1", "a@x.com")
    \/ ForgotUser("r1")
    \/ ForgotLock("r1")
    \/ ForgotSession("r1")
    \/ ForgotCreate("r1", "111111")
    \/ ResetStart("r1", "a@x.com", "111111", "Hunter22")
    \/ ResetUser("r1")
    \/ ResetSession("r1")
    \/ ResetTokens("r1")
    \/ ResetTx("r1")
    \/ \E d \in SessionTicks : Between(d)

SpecResetSeq == InitVerified /\ [][ResetSeqNext]_vars

\* One client, one request at a time, on two verified accounts: login,
\* authenticated requests and change-password.
ChangeSeqNext ==
    \/ Login({"r1"}, Emails, {"Passw0rd"})
    \/ Me({"r1"})
    \/ Change({"r1"}, Passwords)

SpecChangeSeq == InitVerified /\ [][ChangeSeqNext]_vars

\* One client, one request at a time: registration, verification and
\* resend-code inside and at the end of the resend cooldown.
CooldownTicks == {1, ResendCooldown - 1}

ResendSeqNext ==
    \/ Register({"r1"}, {"a@x.com"}, {"Passw0rd"}, {"111111"})
    \/ Verify({"r1"}, {"a@x.com"})
    \/ ResendStart("r1", "a@x.com")
    \/ ResendLock("r1")
    \/ ResendUser("r1")
    \/ ResendSession("r1")
    \/ ResendRotate("r1", "111111")
    \/ \E d \in CooldownTicks : Between(d)

SpecResendSeq == Init /\ [][ResendSeqNext]_vars

\* Two clients whose requests overlap: registration and verify-email.
VerifyConcNext ==
    \/ Register(Procs, {"a@x.com"}, {"Passw0rd"}, {"111111"})
    \/ Verify(Procs, {"a@x.com"})

SpecVerifyConc == Init /\ [][VerifyConcNext]_vars

\* The database before and after the seed script has created the OWNER role.
InitRegistration ==
    /\ now = 0
    /\ ticks = 0
    /\ users = [e \in Emails |-> NoUser]
    /\ otpSessions = <<>>
    /\ otpTokens = <<>>
    /\ otpAttempts = EmptyBag
    /\ sessions = <<>>
    /\ bg = {}
    /\ req = [r \in Procs |-> Idle]
    /\ organizations = <<>>
    /\ userRoles = <<>>
    /\ roles \in {{}, {"OWNER"}}
    /\ rolePermissions = IF roles = {} THEN {} ELSE SeededRolePermissions
    /\ clients = <<>>

\* Two clients whose registrations overlap, of either address under any of
\* the organization names, on a database that may fail any statement of the
\* transaction.
RegistrationNext ==
    \/ \E r \in Procs, email \in Emails, organizationName \in OrgNames :
           RegisterStartFor(r, email, "Passw0rd", organizationName)
    \/ \E r \in Procs : RegisterLookup(r)
    \/ \E r \in Procs : RegisterTx(r, "111111")
    \/ \E r \in Procs : RegisterTxFault(r, "111111")

SpecRegistration == InitRegistration /\ [][RegistrationNext]_vars

\* The cookies a client can send: none, a token of no session, and the
\* tokens of the sessions issued so far.
AnyCookie == {NULL, 0} \cup Indices(sessions)

\* One client, one request at a time, on the verified account with a
\* password-reset code outstanding and on an unknown address: login, logout,
\* forgot-password and the reset with the code that was sent, on a database
\* that may fail any store call of logout and of forgot-password.
SilentFaultsNext ==
    \/ LoginStart("r1", "a@x.com", "Passw0rd")
    \/ LoginUser("r1")
    \/ Len(sessions) < MaxOverlapSessions /\ LoginTx("r1")
    \/ \E token \in AnyCookie, everywhere \in BOOLEAN : LogoutStart("r1", token, everywhere)
    \/ LogoutFind("r1")
    \/ LogoutTx("r1")
    \/ LogoutFault("r1")
    \/ Forgot({"r1"}, Emails, {"111111"})
    \/ ForgotFault("r1")
    \/ ResetStart("r1", "a@x.com", "111111", "Passw0rd")
    \/ ResetUser("r1")
    \/ ResetSession("r1")
    \/ ResetTokens("r1")
    \/ ResetTx("r1")
    \/ \E d \in {ResendCooldown} : Between(d)

SpecSilentFaults == InitRecovering /\ [][SilentFaultsNext]_vars

\* The rows that findSessionForAuth can return for the cookie of a session
\* of a@x.com: the session live or revoked, its user missing or present in
\* any state of verified and isLocked, its organization missing, present or
\* soft-deleted.
AuthUsers ==
    {NoUser} \cup
    {[exists |-> TRUE, password |-> hashPassword("Passw0rd"), verified |-> v,
      isLocked |-> l, loginAttempts |-> 0, orgDeleted |-> d, organizationId |-> o] :
         v \in BOOLEAN, l \in BOOLEAN, d \in BOOLEAN, o \in {NULL, 1}}

InitAuth ==
    /\ now = 0
    /\ ticks = 0
    /\ \E user \in AuthUsers : users = [e \in Emails |-> IF e = "a@x.com" THEN user ELSE NoUser]
    /\ otpSessions = <<>>
    /\ otpTokens = <<>>
    /\ otpAttempts = EmptyBag
    /\ \E revokedAt \in {NULL, 0} :
           sessions = IF revokedAt = NULL
                      THEN createSession(<<>>, "a@x.com", 0)
                      ELSE revokeSession(createSession(<<>>, "a@x.com", 0), 1, "logout", revokedAt)
    /\ bg = {}
    /\ req = [r \in Procs |-> Idle]
    /\ organizations = createOrganization(<<>>, OrgOf("a@x.com"), generateSlug(OrgOf("a@x.com")))
    /\ userRoles = assignOwnerRole(<<>>, "a@x.com")
    /\ roles = {"OWNER"}
    /\ rolePermissions = SeededRolePermissions
    /\ clients = <<>>

\* One client sends authenticated requests, one at a time, with no cookie,
\* with a cookie of no session and with the cookie of the session, before
\* and after the session expires.
AuthTicks == {ActivityThreshold, SessionLifetime + 1}

AuthNext ==
    \/ \E token \in AnyCookie : MeStart("r1", token)
    \/ MeAuth("r1")
    \/ \E sid \in Indices(sessions) : ActivityWrite(sid)
    \/ \E d \in AuthTicks : Between(d)

SpecAuth == InitAuth /\ [][AuthNext]_vars

\* One client sends authenticated requests and logouts, one at a time, with
\* time steps that reach the instant the session expires and the one after.
ExpiryTicks == {1, SessionLifetime}

ExpiryNext ==
    \/ \E token \in AnyCookie : MeStart("r1", token)
    \/ MeAuth("r1")
    \/ \E token \in AnyCookie, everywhere \in BOOLEAN : LogoutStart("r1", token, everywhere)
    \/ LogoutFind("r1")
    \/ LogoutTx("r1")
    \/ \E sid \in Indices(sessions) : ActivityWrite(sid)
    \/ \E d \in ExpiryTicks : Between(d)

SpecExpiry == InitAuth /\ [][ExpiryNext]_vars

\* The rows that findUserForLogin can return for a@x.com: the user in any
\* state of verified, isLocked and of its organization's deletedAt.
LoginUsers ==
    {[exists |-> TRUE, password |-> hashPassword("Passw0rd"), verified |-> v,
      isLocked |-> l, loginAttempts |-> IF l THEN MAX_LOGIN_ATTEMPTS ELSE 0,
      orgDeleted |-> d, organizationId |-> 1] :
         v \in BOOLEAN, l \in BOOLEAN, d \in BOOLEAN}

InitLoginRows ==
    /\ now = 0
    /\ ticks = 0
    /\ \E user \in LoginUsers : users = [e \in Emails |-> IF e = "a@x.com" THEN user ELSE NoUser]
    /\ otpSessions = <<>>
    /\ otpTokens = <<>>
    /\ otpAttempts = EmptyBag
    /\ sessions = <<>>
    /\ bg = {}
    /\ req = [r \in Procs |-> Idle]
    /\ organizations = createOrganization(<<>>, OrgOf("a@x.com"), generateSlug(OrgOf("a@x.com")))
    /\ userRoles = assignOwnerRole(<<>>, "a@x.com")
    /\ roles = {"OWNER"}
    /\ rolePermissions = SeededRolePermissions
    /\ clients = <<>>

\* One client logs in, one request at a time, with either password, for the
\* address of the user and for an address without user.
LoginRowsNext == Login({"r1"}, Emails, Passwords)

SpecLoginRows == InitLoginRows /\ [][LoginRowsNext]_vars

\* One client, one request at a time, on two verified accounts: login and
\* logout with any cookie, and the time that takes a session past its
\* expiry.
LogoutSeqNext ==
    \/ \E email \in Emails : LoginStart("r1", email, "Passw0rd")
    \/ LoginUser("r1")
    \/ LoginTx("r1")
    \/ \E token \in AnyCookie, everywhere \in BOOLEAN : LogoutStart("r1", token, everywhere)
    \/ LogoutFind("r1")
    \/ LogoutTx("r1")
    \/ \E d \in SessionTicks : Between(d)

SpecLogoutSeq == InitVerified /\ [][LogoutSeqNext]_vars

\* One client sends authenticated requests, one at a time, around the
\* activity threshold; the lastActivity writes they leave behind run or
\* fail at any later moment.
ActivityTicks == {1, ActivityThreshold - 1}

ActivityNext ==
    \/ \E token \in AnyCookie : MeStart("r1", token)
    \/ MeAuth("r1")
    \/ \E sid \in Indices(sessions) : ActivityWrite(sid)
    \/ \E sid \in Indices(sessions) : ActivityFail(sid)
    \/ \E d \in ActivityTicks : Between(d)

SpecActivity == InitAuth /\ [][ActivityNext]_vars

\* The Role, RolePermission, UserRole and Client rows that the seed scripts
\* and the administration of roles can leave: a@x.com holds any of the roles
\* AGENT and MANAGER, whose permissions are any of a few exact and wildcard
\* ones; b@x.com is an OWNER, in the organization of a@x.com or in its own;
\* each has created one client in its organization and holds a live session.
AgentPermissions ==
    {[role |-> "AGENT", resource |-> "clients", action |-> "read"],
     [role |-> "AGENT", resource |-> "users", action |-> "read"],
     [role |-> "AGENT", resource |-> "clients", action |-> "*"]}

ManagerPermissions ==
    {[role |-> "MANAGER", resource |-> "clients", action |-> "*"],
     [role |-> "MANAGER", resource |-> "*", action |-> "*"],
     [role |-> "MANAGER", resource |-> "*", action |-> "read"]}

InitClients ==
    /\ now = 0
    /\ ticks = 0
    /\ \E organizationId \in {1, 2} :
           /\ users = [e \in Emails |->
                          markUserVerified(createUser([u \in Emails |-> NoUser], e,
                                                      hashPassword("Passw0rd"),
                                                      IF e = "a@x.com" THEN 1 ELSE organizationId),
                                           e)[e]]
           /\ clients = <<[organizationId |-> 1, createdById |-> "a@x.com"],
                          [organizationId |-> organizationId, createdById |-> "b@x.com"]>>
    /\ otpSessions = markOtpSessionInactive(
                         createOtpSession(
                             markOtpSessionInactive(createOtpSession(<<>>, "a@x.com", 0), 1),
                             "b@x.com", 0), 2)
    /\ otpTokens = markOtpTokenConsumed(
                       createOtpToken(
                           markOtpTokenConsumed(createOtpToken(<<>>, 1, "111111", 0), 1, 0),
                           2, "111111", 0), 2, 0)
    /\ otpAttempts = createOtpAttempt(createOtpAttempt(EmptyBag, 1, 1, "SUCCESS", ""),
                                      2, 2, "SUCCESS", "")
    /\ sessions = createSession(createSession(<<>>, "a@x.com", 0), "b@x.com", 0)
    /\ bg = {}
    /\ req = [r \in Procs |-> Idle]
    /\ organizations = createOrganization(
                           createOrganization(<<>>, OrgOf("a@x.com"),
                                              generateSlug(OrgOf("a@x.com"))),
                           OrgOf("b@x.com"), generateSlug(OrgOf("b@x.com")))
    /\ roles = {"OWNER", "AGENT", "MANAGER"}
    /\ \E held \in SUBSET {"AGENT", "MANAGER"} :
           userRoles = IF held = {} THEN <<[userId |-> "b@x.com", role |-> "OWNER"]>>
                       ELSE IF held = {"AGENT"}
                       THEN <<[userId |-> "b@x.com", role |-> "OWNER"],
                              [userId |-> "a@x.com", role |-> "AGENT"]>>
                       ELSE IF held = {"MANAGER"}
                       THEN <<[userId |-> "b@x.com", role |-> "OWNER"],
                              [userId |-> "a@x.com", role |-> "MANAGER"]>>
                       ELSE <<[userId |-> "b@x.com", role |-> "OWNER"],
                              [userId |-> "a@x.com", role |-> "AGENT"],
                              [userId |-> "a@x.com", role |-> "MANAGER"]>>
    /\ \E agent \in SUBSET AgentPermissions, manager \in SUBSET ManagerPermissions :
           rolePermissions = SeededRolePermissions \cup agent \cup manager

\* One client sends, one request at a time and with any cookie, the client
\* listing and requests to routes that require other permissions.
ClientsNext ==
    \/ \E token \in AnyCookie : ClientsStart("r1", token)
    \/ \E token \in AnyCookie, resource \in {"clients", "users"}, action \in {"read", "delete"} :
           GuardStart("r1", token, resource, action)
    \/ GuardAuth("r1")
    \/ RequirePermission("r1")
    \/ ClientsQuery("r1")

SpecClients == InitClients /\ [][ClientsNext]_vars

\* One client, one request at a time: verification under a session lock, with
\* time steps that reach the cooldown and the end of the lock.
LockTicks == {ResendCooldown, OtpLockDuration}

LockSeqNext ==
    \/ Register({"r1"}, {"a@x.com"}, {"Passw0rd"}, {"111111"})
    \/ Verify({"r1"}, {"a@x.com"})
    \/ \E email \in {"a@x.com"} : ResendStart("r1", email)
    \/ ResendLock("r1")
    \/ ResendUser("r1")
    \/ ResendSession("r1")
    \/ \E otpCode \in Codes : ResendRotate("r1", otpCode)
    \/ \E d \in LockTicks : Between(d)

SpecLockSeq == Init /\ [][LockSeqNext]_vars

\* Two clients whose requests overlap: registration and verify-email on a
\* database that may fail a statement of the success transaction.
VerifyFaultsNext ==
    \/ Register(Procs, {"a@x.com"}, {"Passw0rd"}, {"111111"})
    \/ Verify(Procs, {"a@x.com"})
    \/ \E r \in Procs : VerifyTxFault(r)

SpecVerifyFaults == Init /\ [][VerifyFaultsNext]_vars

\* One client, one request at a time, from registration on: the account is
\* verified or not, is locked by failed logins or not, and is recovered by
\* forgot-password and reset-password with the code that was sent.
RecoverSeqNext ==
    \/ Register({"r1"}, {"a@x.com"}, {"Passw0rd"}, {"111111"})
    \/ VerifyStart("r1", "a@x.com", "111111")
    \/ VerifyUser("r1")
    \/ VerifySession("r1")
    \/ VerifyTokens("r1")
    \/ VerifyTx("r1")
    \/ Login({"r1"}, {"a@x.com"}, Passwords)
    \/ ForgotStart("r1", "a@x.com")
    \/ ForgotUser("r1")
    \/ ForgotLock("r1")
    \/ ForgotSession("r1")
    \/ ForgotCreate("r1", "111111")
    \/ ResetStart("r1", "a@x.com", "111111", "Hunter22")
    \/ ResetUser("r1")
    \/ ResetSession("r1")
    \/ ResetTokens("r1")
    \/ ResetTx("r1")

SpecRecoverSeq == Init /\ [][RecoverSeqNext]_vars

\* Two clients whose reset-password requests overlap, on an account with a
\* code sent.
ResetConcNext == Reset(Procs, {"a@x.com"}, Codes, Passwords)

SpecResetConc == InitRecovering /\ [][ResetConcNext]_vars

\* One client, one request at a time, on an account with a code sent:
\* forgot-password and reset-password, with time steps that reach the
\* cooldown and take the session past its expiry.
ForgotSeqNext ==
    \/ Forgot({"r1"}, {"a@x.com"}, {"222222"})
    \/ Reset({"r1"}, {"a@x.com"}, Codes, {"Hunter22"})
    \/ \E d \in OtpTicks : Between(d)

SpecForgotSeq == InitRecovering /\ [][ForgotSeqNext]_vars

\* The token table after a registration at time 0 and k resends, one every
\* cooldown.
RECURSIVE RotatedTokens(_)
RotatedTokens(k) ==
    IF k = 0 THEN createOtpToken(<<>>, 1, "111111", 0)
    ELSE rotateTokens(RotatedTokens(k - 1), 1, "111111", k * ResendCooldown)

\* The TOKEN_ROTATION rows that the k resends wrote.
RECURSIVE RotationRows(_)
RotationRows(k) ==
    IF k = 0 THEN EmptyBag
    ELSE createOtpAttempt(RotationRows(k - 1), 1, k + 1, "SUCCESS", "TOKEN_ROTATION")

\* The state that a registration of a@x.com and MAX_RESENDS - 1 resends,
\* one every cooldown, leave behind: one resend short of the cap.
InitNearCap ==
    /\ now = (MAX_RESENDS - 1) * ResendCooldown
    /\ ticks = 0
    /\ users = createUser([u \in Emails |-> NoUser], "a@x.com", hashPassword("Passw0rd"), 1)
    /\ otpSessions = updateSessionResendMetadata(createOtpSession(<<>>, "a@x.com", 0), 1,
                                                 MAX_RESENDS - 1,
                                                 (MAX_RESENDS - 1) * ResendCooldown)
    /\ otpTokens = RotatedTokens(MAX_RESENDS - 1)
    /\ otpAttempts = RotationRows(MAX_RESENDS - 1)
    /\ sessions = <<>>
    /\ bg = {}
    /\ req = [r \in Procs |-> Idle]
    /\ organizations = createOrganization(<<>>, OrgOf("a@x.com"),
                                          generateSlug(OrgOf("a@x.com")))
    /\ userRoles = assignOwnerRole(<<>>, "a@x.com")
    /\ roles = {"OWNER"}
    /\ rolePermissions = SeededRolePermissions
    /\ clients = <<>>

\* Two clients whose resend-code requests overlap, one resend short of the
\* cap, in a token table of up to MaxCapTokens rows.
CapConcNext ==
    \/ \E r \in Procs : ResendStart(r, "a@x.com")
    \/ \E r \in Procs : ResendLock(r)
    \/ \E r \in Procs : ResendUser(r)
    \/ \E r \in Procs : ResendSession(r)
    \/ \E r \in Procs : ResendRotateWithin(r, "222222", MaxCapTokens)
    \/ \E d \in {ResendCooldown} : Between(d)

SpecCapConc == InitNearCap /\ [][CapConcNext]_vars

\* One client, one request at a time, on an OTP session that has been locked:
\* wrong codes up to MaxRelockFailures in all, resends, and time steps that
\* reach the end of a lock. The account is either new (verify-email) or
\* recovering (reset-password).
RelockNext ==
    \/ Register({"r1"}, {"a@x.com"}, {"Passw0rd"}, {"111111"})
    \/ \E code \in Codes : VerifyStart("r1", "a@x.com", code)
    \/ VerifyUser("r1")
    \/ VerifySession("r1")
    \/ VerifyTokens("r1")
    \/ VerifyIncRead("r1")
    \/ VerifyIncWriteWithin("r1", MaxRelockFailures)
    \/ VerifyAttempt("r1")
    \/ VerifyTx("r1")
    \/ ResendStart("r1", "a@x.com")
    \/ ResendLock("r1")
    \/ ResendUser("r1")
    \/ ResendSession("r1")
    \/ ResendRotate("r1", "111111")
    \/ \E code \in Codes : ResetStart("r1", "a@x.com", code, "Hunter22")
    \/ ResetUser("r1")
    \/ ResetSession("r1")
    \/ ResetTokens("r1")
    \/ ResetIncRead("r1")
    \/ ResetIncWriteWithin("r1", MaxRelockFailures)
    \/ ResetAttempt("r1")
    \/ ResetTx("r1")
    \/ \E d \in LockTicks : Between(d)

SpecRelock == (Init \/ InitRecovering) /\ [][RelockNext]_vars

\* Two clients of one address whose requests overlap, from an empty database:
\* registration, verification with the code that was sent, logins with the
\* registered and the reset password, and a password reset by the first.
SessionsConcNext ==
    \/ Register(Procs, {"a@x.com"}, {"Passw0rd"}, {"111111"})
    \/ \E r \in Procs : VerifyStart(r, "a@x.com", "111111")
    \/ \E r \in Procs : VerifyUser(r)
    \/ \E r \in Procs : VerifySession(r)
    \/ \E r \in Procs : VerifyTokens(r)
    \/ \E r \in Procs : VerifyTx(r)
    \/ \E r \in Procs, pw \in {"Passw0rd", "Hunter22"} : LoginStart(r, "a@x.com", pw)
    \/ \E r \in Procs : LoginUser(r)
    \/ \E r \in Procs : LoginInc(r)
    \/ \E r \in Procs : Len(sessions) < MaxOverlapSessions /\ LoginTx(r)
    \/ ForgotStart("r1", "a@x.com")
    \/ ForgotUser("r1")
    \/ ForgotLock("r1")
    \/ ForgotSession("r1")
    \/ ForgotCreate("r1", "111111")
    \/ ResetStart("r1", "a@x.com", "111111", "Hunter22")
    \/ ResetUser("r1")
    \/ ResetSession("r1")
    \/ ResetTokens("r1")
    \/ ResetTx("r1")

SpecSessionsConc == Init /\ [][SessionsConcNext]_vars

\* One client, one request at a time, on a recovering account: reset-password
\* for the address of the user and for an address without user, with either
\* code; logins with either password; and time steps that take a reset code
\* and a reset session past their expiry.
ResetFailTicks == {OtpTokenLifetime + 1, OtpSessionLifetime + 1}

ResetFailNext ==
    \/ Reset({"r1"}, Emails, Codes, {"Hunter22"})
    \/ \E pw \in Passwords : LoginStart("r1", "a@x.com", pw)
    \/ LoginUser("r1")
    \/ LoginInc("r1")
    \/ sessions = <<>> /\ LoginTx("r1")
    \/ \E d \in ResetFailTicks : Between(d)

SpecResetFail == InitRecovering /\ [][ResetFailNext]_vars

\* ------------------------------------------------------------------------
\* Properties of the OTP sessions
\* ------------------------------------------------------------------------
ActiveOtpSessions(email, purpose) ==
    {i \in Indices(otpSessions) : /\ otpSessions[i].email = email
                                  /\ otpSessions[i].purpose = purpose
                                  /\ otpSessions[i].active}

\* Some OTP session of the address, of any purpose, is locked at time t.
AnyLock(email, t) ==
    \E i \in Indices(otpSessions) : /\ otpSessions[i].email = email
                                    /\ otpSessions[i].lockUntil # NULL
                                    /\ otpSessions[i].lockUntil > t

\* Some OTP session of the address and the purpose is locked at time t.
PurposeLock(email, purpose, t) ==
    \E i \in Indices(otpSessions) : /\ otpSessions[i].email = email
                                    /\ otpSessions[i].purpose = purpose
                                    /\ otpSessions[i].lockUntil # NULL
                                    /\ otpSessions[i].lockUntil > t

\* C1: when register, resend-code, verify-email, forgot-password and
\* reset-password run one after another, each (email, purpose) pair has at
\* most one OtpSession with active = true.
C1_OneActiveSessionSequential ==
    \A email \in Emails, purpose \in Purposes :
        Cardinality(ActiveOtpSessions(email, purpose)) <= 1

\* An expired verification session was replaced (the old one is inactive, the
\* user still unverified) and a password-reset session is active beside it.
C1_Witness ==
    /\ Len(otpSessions) = 3
    /\ ~users["a@x.com"].verified
    /\ otpSessions[1].purpose = "EMAIL_VERIFICATION" /\ ~otpSessions[1].active
    /\ otpSessions[2].purpose = "EMAIL_VERIFICATION" /\ otpSessions[2].active
    /\ otpSessions[3].purpose = "PASSWORD_RESET" /\ otpSessions[3].active

\* C2: in every reachable state of overlapping requests, no two OtpSessions
\* of the same (email, purpose) are both active.
C2_OneActiveSessionConcurrent ==
    \A i, j \in Indices(otpSessions) :
        (/\ i # j
         /\ otpSessions[i].email = otpSessions[j].email
         /\ otpSessions[i].purpose = otpSessions[j].purpose
         /\ otpSessions[i].active)
        => ~otpSessions[j].active

C7_ForgotResponseUniform ==
    \A r, q \in Procs :
        (/\ req[r].op = "forgot" /\ req[r].pc = "done"
         /\ req[q].op = "forgot" /\ req[q].pc = "done")
        => req[r].resp = req[q].resp

\* C8: forgot-password for an address without user, and for a user with a
\* locked PASSWORD_RESET session, end with the same status and body, and
\* neither creates or changes an OtpSession or OtpToken.
C8_NotFoundLikeLocked ==
    [][\A r \in Procs :
        /\ (At(r, "forgot", "user") /\ ~users[req[r].email].exists)
           => /\ req'[r].pc = "done"
              /\ req'[r].resp = Resp(200, "OK", ForgotMessage, NULL)
              /\ UNCHANGED <<otpSessions, otpTokens>>
        /\ (/\ req[r].op = "forgot"
            /\ req[r].pc \in {"user", "lock"}
            /\ users[req[r].email].exists
            /\ PurposeLock(req[r].email, "PASSWORD_RESET", now))
           => /\ req'[r].pc \in {"lock", "done"}
              /\ req'[r].pc = "done" => req'[r].resp = Resp(200, "OK", ForgotMessage, NULL)
              /\ UNCHANGED <<otpSessions, otpTokens>>]_vars

\* forgot-password has just been refused for a user whose PASSWORD_RESET
\* session is locked, after the cooldown of that session has passed.
C8_Witness ==
    /\ req["r1"].op = "forgot"
    /\ req["r1"].pc = "done"
    /\ req["r1"].log = "Password reset blocked by active session lock"
    /\ req["r1"].resp = Resp(200, "OK", ForgotMessage, NULL)
    /\ users[req["r1"].email].exists
    /\ \E i \in Indices(otpSessions) :
          /\ otpSessions[i].purpose = "PASSWORD_RESET"
          /\ otpSessions[i].lockUntil # NULL /\ otpSessions[i].lockUntil > now
          /\ now - otpSessions[i].lastSentAt >= ResendCooldown

\* ------------------------------------------------------------------------
\* Properties of the login lockout
\* ------------------------------------------------------------------------
\* C3: for a verified user of a live organization, logins running one after
\* another: a wrong password on the unlocked account is answered 401
\* INVALID_CREDENTIALS and counted, and the account is locked exactly when
\* the count reaches MAX_LOGIN_ATTEMPTS, so the fifth wrong password in a
\* row from loginAttempts = 0 locks it; a login on the locked account, even
\* with the right password, is answered 401 ACCOUNT_LOCKED, creates no
\* Session and leaves isLocked true.
C3_LockoutAfterMaxAttempts ==
    [][\A r \in Procs :
        LET user == users[req[r].email]
            after == users'[req[r].email]
        IN  (/\ req[r].op = "login"
             /\ req[r].pc \in {"user", "inc"}
             /\ user.exists /\ user.verified /\ ~user.orgDeleted)
            => /\ (~user.isLocked /\ ~verifyPassword(req[r].pw, user.password))
                  => /\ req'[r].pc \in {"inc", "done"}
                     /\ req'[r].pc = "inc" => users' = users
                     /\ req'[r].pc = "done"
                        => /\ req'[r].resp.status = 401
                           /\ req'[r].resp.code = "INVALID_CREDENTIALS"
                           /\ after.loginAttempts = user.loginAttempts + 1
                           /\ after.isLocked <=> (user.loginAttempts + 1 >= MAX_LOGIN_ATTEMPTS)
                           /\ after.isLocked <=> (user.loginAttempts + 1 >= 5)
                     /\ sessions' = sessions
               /\ user.isLocked
                  => /\ req'[r].pc = "done"
                     /\ req'[r].resp.status = 401
                     /\ req'[r].resp.code = "ACCOUNT_LOCKED"
                     /\ users' = users
                     /\ sessions' = sessions]_vars

\* After five wrong passwords the account is locked, and a login with the
\* right password has just been answered ACCOUNT_LOCKED without a Session.
C3_Witness ==
    /\ req["r1"].op = "login"
    /\ req["r1"].pc = "done"
    /\ verifyPassword(req["r1"].pw, users[req["r1"].email].password)
    /\ req["r1"].resp = accountLocked
    /\ users[req["r1"].email].isLocked
    /\ users[req["r1"].email].loginAttempts = 5
    /\ sessions = <<>>

\* C4: in every reachable state every user has isLocked true exactly when
\* loginAttempts >= MAX_LOGIN_ATTEMPTS, whatever the interleaving of failed
\* and successful logins, reset-password and change-password.
C4_LockedIffMaxAttempts ==
    \A email \in Emails :
        users[email].exists
        => (users[email].isLocked <=> users[email].loginAttempts >= MAX_LOGIN_ATTEMPTS)

\* C5: a step that takes isLocked from true to false is the commit of a
\* successful reset-password of that user; no login, change-password,
\* verify-email or logout step does it.
C5_LockedUntilReset ==
    [][\A email \in Emails :
        (users[email].isLocked /\ ~users'[email].isLocked)
        => \E r \in Procs : /\ At(r, "reset", "tx")
                            /\ req[r].email = email
                            /\ req'[r].pc = "done"]_vars

\* ------------------------------------------------------------------------
\* Properties of the sessions
\* ------------------------------------------------------------------------
SessionsOf(userId) == {i \in Indices(sessions) : sessions[i].userId = userId}

\* C9: the commit of a successful reset-password leaves every Session of
\* that user revoked, none excluded; a revoked session stays revoked; and a
\* request that presents the token of a revoked session, expired or not, is
\* answered 401 SESSION_REVOKED by authenticate and gets no auth context.
C9_ResetRevokesEverySession ==
    [][/\ \A r \in Procs :
            (At(r, "reset", "tx") /\ req'[r].pc = "done")
            => /\ req'[r].resp.status = 200
               /\ \A i \in SessionsOf(req[r].email) :
                     /\ sessions'[i].revokedAt # NULL
                     /\ sessions[i].revokedAt = NULL => sessions'[i].revokedAt = now
       /\ \A i \in Indices(sessions) :
            sessions[i].revokedAt # NULL
            => /\ i \in Indices(sessions')
               /\ sessions'[i].revokedAt = sessions[i].revokedAt
       /\ \A r \in Procs :
            (/\ req[r].op \in {"me", "change"}
             /\ req[r].pc = "auth"
             /\ req[r].tok \in Indices(sessions)
             /\ sessions[req[r].tok].revokedAt # NULL)
            => /\ req'[r].pc = "done"
               /\ req'[r].resp.status = 401
               /\ req'[r].resp.code = "SESSION_REVOKED"
               /\ req'[r].auth = Idle.auth]_vars

\* Both sessions of the user were revoked by the password reset, and a
\* request with the token of one of them, by now expired as well, has just
\* been answered SESSION_REVOKED.
C9_Witness ==
    /\ req["r1"].op = "me"
    /\ req["r1"].pc = "done"
    /\ req["r1"].resp = sessionRevoked
    /\ req["r1"].auth = Idle.auth
    /\ req["r1"].tok \in SessionsOf("a@x.com")
    /\ sessions[req["r1"].tok].expiresAt < now
    /\ Cardinality(SessionsOf("a@x.com")) >= 2
    /\ \A i \in SessionsOf("a@x.com") : sessions[i].revokedReason = "password_changed"
    /\ users["a@x.com"].password = hashPassword("Hunter22")

\* C10: the commit of a successful change-password leaves the calling
\* session unrevoked and accepted by authenticate, every other session of
\* the same user revoked, the sessions of other users as they were, and
\* isLocked, loginAttempts and verified of the user as they were.
C10_ChangeKeepsCallingSession ==
    [][\A r \in Procs :
        (At(r, "change", "tx") /\ req'[r].pc = "done")
        => LET sid == req[r].auth
               userId == sessions[sid].userId
           IN  /\ req'[r].resp.status = 200
               /\ Len(sessions') = Len(sessions)
               /\ sessions'[sid].revokedAt = NULL
               /\ authenticate(sessions', users', req[r].tok, now') =
                      Resp(200, "OK", "Request authenticated", sid)
               /\ \A i \in SessionsOf(userId) \ {sid} :
                     /\ sessions'[i].revokedAt # NULL
                     /\ sessions[i].revokedAt = NULL => sessions'[i].revokedAt = now
                     /\ sessions[i].revokedAt # NULL => sessions'[i] = sessions[i]
               /\ \A i \in Indices(sessions) \ SessionsOf(userId) : sessions'[i] = sessions[i]
               /\ users'[userId].isLocked = users[userId].isLocked
               /\ users'[userId].loginAttempts = users[userId].loginAttempts
               /\ users'[userId].verified = users[userId].verified
               /\ \A other \in Emails \ {userId} : users'[other] = users[other]]_vars

\* change-password has just succeeded: the calling session is unrevoked, the
\* other session of the user was revoked by it, and the session of the other
\* user is untouched.
C10_Witness ==
    /\ req["r1"].op = "change"
    /\ req["r1"].pc = "done"
    /\ req["r1"].resp.status = 200
    /\ sessions[req["r1"].auth].revokedAt = NULL
    /\ \E i \in SessionsOf(sessions[req["r1"].auth].userId) :
          i # req["r1"].auth /\ sessions[i].revokedReason = "password_changed"
    /\ \E i \in Indices(sessions) :
          /\ sessions[i].userId # sessions[req["r1"].auth].userId
          /\ sessions[i].revokedAt = NULL

\* ------------------------------------------------------------------------
\* Properties of verify-email
\* ------------------------------------------------------------------------
\* C11: a verify-email request for a user who is already verified ends at its
\* first step with the success answer, whatever code it carries, and writes
\* no row of any table; so repeating it leaves the same result and state.
C11_VerifiedVerifyIsNoOp ==
    [][\A r \in Procs :
        (/\ req[r].op = "verify"
         /\ req[r].pc \notin {"idle", "done"}
         /\ users[req[r].email].exists
         /\ users[req[r].email].verified
         /\ req'[r] # req[r])
        => /\ req[r].pc = "user"
           /\ req'[r].pc = "done"
           /\ req'[r].resp = Resp(200, "OK", "Email already verified", NULL)
           /\ UNCHANGED db]_vars

\* verify-email has just answered a verified user who submitted a wrong code
\* while the verification session is still active with an unconsumed token
\* (the user was verified by a password reset).
C11_Witness ==
    /\ req["r1"].op = "verify"
    /\ req["r1"].pc = "done"
    /\ req["r1"].resp = Resp(200, "OK", "Email already verified", NULL)
    /\ users[req["r1"].email].verified
    /\ \E i \in ActiveOtpSessions(req["r1"].email, "EMAIL_VERIFICATION") :
          \E k \in findUnconsumedOtpTokens(otpTokens, i) :
              ~verifyOTP(req["r1"].code, otpTokens[k].codeHash)

\* The address has an unverified user with an active, unexpired, unlocked
\* EMAIL_VERIFICATION session whose newest unconsumed token is unexpired.
Verifiable(email, t) ==
    LET sid == findActiveOtpSession(otpSessions, email)
        tid == Newest(findUnconsumedOtpTokens(otpTokens, sid))
    IN  /\ users[email].exists
        /\ ~users[email].verified
        /\ sid # NULL
        /\ otpSessions[sid].expiresAt >= t
        /\ ~(otpSessions[sid].lockUntil # NULL /\ otpSessions[sid].lockUntil > t)
        /\ tid # NULL
        /\ otpTokens[tid].expiresAt >= t

\* C12: with requests one after another, a verify-email request that finds
\* the address verifiable goes on to compare its code with the newest
\* unconsumed token; a non-matching code adds exactly 1 to the attemptCount
\* of that session, touches no other session, user or token, and is answered
\* 400 INVALID_CODE with attemptsRemaining = max(0, maxAttempts - new
\* attemptCount); a matching code is answered 200 and sets user.verified.
C12_WrongCodeCountedRightCodeVerifies ==
    [][\A r \in Procs :
        (req[r].op = "verify" /\ req'[r] # req[r]) =>
        LET email == req[r].email
            sid == findActiveOtpSession(otpSessions, email)
            tid == Newest(findUnconsumedOtpTokens(otpTokens, sid))
            mine == req[r].sid
        IN  /\ (req[r].pc = "user" /\ Verifiable(email, now))
               => req'[r].pc = "session" /\ UNCHANGED db
            /\ (req[r].pc = "session" /\ Verifiable(email, now))
               => req'[r].pc = "tokens" /\ req'[r].sid = sid /\ UNCHANGED db
            /\ (req[r].pc = "tokens" /\ Verifiable(email, now))
               => /\ mine = sid
                  /\ req'[r].tid = tid
                  /\ req'[r].pc = IF verifyOTP(req[r].code, otpTokens[tid].codeHash)
                                  THEN "tx" ELSE "inc_read"
                  /\ UNCHANGED db
            /\ req[r].pc = "inc_read" => req'[r].pc = "inc_write" /\ UNCHANGED db
            /\ req[r].pc = "inc_write"
               => /\ req'[r].pc = "attempt"
                  /\ otpSessions'[mine].attemptCount = otpSessions[mine].attemptCount + 1
                  /\ \A i \in Indices(otpSessions) : i # mine => otpSessions'[i] = otpSessions[i]
                  /\ Len(otpSessions') = Len(otpSessions)
                  /\ UNCHANGED <<users, otpTokens, sessions>>
            /\ req[r].pc = "attempt"
               => /\ req'[r].pc = "done"
                  /\ req'[r].resp.status = 400
                  /\ req'[r].resp.code = "INVALID_CODE"
                  /\ req'[r].resp.extra =
                        (IF otpSessions[mine].maxAttempts - otpSessions[mine].attemptCount > 0
                         THEN otpSessions[mine].maxAttempts - otpSessions[mine].attemptCount
                         ELSE 0)
                  /\ UNCHANGED <<users, otpSessions, otpTokens, sessions>>
            /\ req[r].pc = "tx"
               => /\ req'[r].pc = "done"
                  /\ req'[r].resp.status = 200
                  /\ req'[r].resp.message = "Email verified successfully"
                  /\ users'[email].verified]_vars

\* Scenario A: right after registration one wrong code was answered with
\* maxAttempts - 1 attempts remaining, and the next request, with the right
\* code, has verified the user.
C12_Witness ==
    /\ req["r1"].op = "verify"
    /\ req["r1"].pc = "done"
    /\ req["r1"].resp.message = "Email verified successfully"
    /\ users[req["r1"].email].verified
    /\ now = 0
    /\ Len(otpSessions) = 1
    /\ otpSessions[1].attemptCount = 1
    /\ [sessionId |-> 1, tokenId |-> 1, purpose |-> "EMAIL_VERIFICATION",
        status |-> "FAILURE", reason |-> "INVALID_CODE"] \in BagToSet(otpAttempts)

\* ------------------------------------------------------------------------
\* Properties of resend-code
\* ------------------------------------------------------------------------
\* The address has an unverified user whose most recent verification session
\* is unexpired, unlocked, below the resend cap and inside its cooldown.
InCooldown(email, t) ==
    LET sid == findAnyOtpSession(otpSessions, email)
    IN  /\ users[email].exists
        /\ ~users[email].verified
        /\ sid # NULL
        /\ otpSessions[sid].expiresAt >= t
        /\ ~(otpSessions[sid].lockUntil # NULL /\ otpSessions[sid].lockUntil > t)
        /\ otpSessions[sid].resendCount < MAX_RESENDS
        /\ otpSessions[sid].lastSentAt # NULL
        /\ t - otpSessions[sid].lastSentAt < ResendCooldown

\* C13: with requests one after another, a resend-code request for an
\* address inside its cooldown passes the lock and user checks and is
\* answered 429 RESEND_RATE_LIMITED with 1 <= waitSeconds <=
\* RESEND_COOLDOWN_SECONDS, and no step of it writes a row.
C13_CooldownRejectsResend ==
    [][\A r \in Procs :
        (/\ req[r].op = "resend"
         /\ req[r].pc \in {"lock", "user", "session"}
         /\ InCooldown(req[r].email, now)
         /\ req'[r] # req[r])
        => /\ UNCHANGED db
           /\ req[r].pc = "lock" => req'[r].pc = "user"
           /\ req[r].pc = "user" => req'[r].pc = "session"
           /\ req[r].pc = "session"
              => /\ req'[r].pc = "done"
                 /\ req'[r].resp.status = 429
                 /\ req'[r].resp.code = "RESEND_RATE_LIMITED"
                 /\ req'[r].resp.extra >= 1
                 /\ req'[r].resp.extra <= RESEND_COOLDOWN_SECONDS]_vars

\* Scenario C: a resend has rotated the token once the first cooldown was
\* over, and the next resend, inside the new cooldown, has been rejected
\* and has left resendCount at 1.
C13_Witness ==
    /\ req["r1"].op = "resend"
    /\ req["r1"].pc = "done"
    /\ req["r1"].resp.code = "RESEND_RATE_LIMITED"
    /\ req["r1"].resp.extra = RESEND_COOLDOWN_SECONDS
    /\ Len(otpSessions) = 1
    /\ otpSessions[1].resendCount = 1
    /\ otpSessions[1].lastSentAt = now
    /\ Cardinality(findUnconsumedOtpTokens(otpTokens, 1)) = 1

\* The outcome the ordered conditions (1) to (8) give a resend-code call for
\* the address at time t, where locked says whether condition (1) holds.
ResendOutcome(email, t, locked) ==
    LET sid == findAnyOtpSession(otpSessions, email)
        session == otpSessions[sid]
    IN  IF locked THEN "SESSION_LOCKED"
        ELSE IF users[email].exists /\ users[email].verified THEN "ALREADY_VERIFIED"
        ELSE IF sid = NULL THEN "NO_VERIFICATION_SESSION"
        ELSE IF session.expiresAt < t THEN "REPLACED"
        ELSE IF session.lockUntil # NULL /\ session.lockUntil > t THEN "SESSION_LOCKED"
        ELSE IF session.resendCount >= MAX_RESENDS THEN "TOO_MANY_RESENDS"
        ELSE IF t - session.lastSentAt < ResendCooldown THEN "RESEND_RATE_LIMITED"
        ELSE "ROTATED"

\* The step of a resend-code request agrees with the outcome: a step that
\* does not end the request writes nothing; the step that ends it gives the
\* answer of the outcome, and writes exactly when the outcome is a
\* replacement session (one more OtpSession and OtpToken) or a token
\* rotation (one more OtpToken in the same session).
ResendAgrees(r, outcome) ==
    /\ req'[r].pc # "done" => UNCHANGED db
    /\ req'[r].pc = "done" =>
          /\ outcome \in {"SESSION_LOCKED", "NO_VERIFICATION_SESSION", "TOO_MANY_RESENDS",
                          "RESEND_RATE_LIMITED"}
             => /\ req'[r].resp.code = outcome
                /\ req'[r].resp.status \in {400, 429}
                /\ UNCHANGED db
          /\ outcome = "ALREADY_VERIFIED"
             => /\ req'[r].resp = Resp(200, "OK", "Email already verified", NULL)
                /\ UNCHANGED db
          /\ outcome = "REPLACED"
             => /\ req'[r].resp.status = 200
                /\ req'[r].resp.message = "New verification code sent"
                /\ Len(otpSessions') = Len(otpSessions) + 1
                /\ Len(otpTokens') = Len(otpTokens) + 1
                /\ otpTokens'[Len(otpTokens')].sessionId = Len(otpSessions')
          /\ outcome = "ROTATED"
             => /\ req'[r].resp.status = 200
                /\ req'[r].resp.message = "New verification code sent"
                /\ Len(otpSessions') = Len(otpSessions)
                /\ Len(otpTokens') = Len(otpTokens) + 1
                /\ otpTokens'[Len(otpTokens')].sessionId = findAnyOtpSession(otpSessions, req[r].email)

C15_FailedLoginCountedOnce ==
    [][\A r \in Procs :
        (At(r, "login", "inc") /\ req'[r].pc = "done")
        => /\ users'[req[r].email].loginAttempts = users[req[r].email].loginAttempts + 1
           /\ users'[req[r].email].loginAttempts >= MAX_LOGIN_ATTEMPTS
              => users'[req[r].email].isLocked]_vars

\* C16: every verify-email or reset-password request that fails on a wrong
\* code is counted exactly once on its OtpSession: the step that records the
\* failure leaves attemptCount one higher than it was, and lockUntil set
\* once the count has reached maxAttempts.
C16_WrongCodeCountedOnce ==
    [][\A r \in Procs :
        (/\ req[r].op \in {"verify", "reset"}
         /\ req[r].pc = "inc_write"
         /\ req'[r].pc = "attempt")
        => LET sid == req[r].sid
           IN  /\ otpSessions'[sid].attemptCount = otpSessions[sid].attemptCount + 1
               /\ otpSessions'[sid].attemptCount >= otpSessions'[sid].maxAttempts
                  => otpSessions'[sid].lockUntil # NULL]_vars

\* ------------------------------------------------------------------------
\* Properties of the login answers
\* ------------------------------------------------------------------------
\* C17: a login for an address without user, and a login with a wrong
\* password for a verified, unlocked user of a live organization, are
\* answered with the same error (401, INVALID_CREDENTIALS, same message),
\* and no step of either creates a Session.
C17_UnknownLikeWrongPassword ==
    [][\A r \in Procs :
        LET user == users[req[r].email]
        IN  (/\ req[r].op = "login"
             /\ req[r].pc \in {"user", "inc"}
             /\ req'[r] # req[r]
             /\ \/ ~user.exists
                \/ /\ user.exists /\ user.verified /\ ~user.isLocked /\ ~user.orgDeleted
                   /\ ~verifyPassword(req[r].pw, user.password))
            => /\ UNCHANGED sessions
               /\ req'[r].pc \in {"inc", "done"}
               /\ ~user.exists => req'[r].pc = "done"
               /\ req'[r].pc = "done"
                  => req'[r].resp = Resp(401, "INVALID_CREDENTIALS",
                                         "Invalid email or password.", NULL)]_vars

\* A login for an address without user has just been answered, after a
\* wrong password for the verified user of the other address was answered
\* and counted.
C17_Witness ==
    /\ req["r1"].op = "login"
    /\ req["r1"].pc = "done"
    /\ ~users[req["r1"].email].exists
    /\ req["r1"].resp = Resp(401, "INVALID_CREDENTIALS", "Invalid email or password.", NULL)
    /\ \E e \in Emails : /\ users[e].exists /\ users[e].verified /\ ~users[e].isLocked
                         /\ users[e].loginAttempts >= 1
    /\ sessions = <<>>

\* C18: registration is all-or-nothing. A registration transaction that
\* ends in an error leaves the Organization, User, UserRole, OtpSession and
\* OtpToken tables as they were; one that succeeds has added exactly one
\* organization, one unverified user of that organization with the OWNER
\* role, one active EMAIL_VERIFICATION session and one unconsumed token of
\* that session.
C18_RegistrationAllOrNothing ==
    [][\A r \in Procs :
           (At(r, "register", "tx") /\ req'[r].pc = "done")
           => LET email == req[r].email
              IN  IF req'[r].resp.status = 201
                  THEN /\ Len(organizations') = Len(organizations) + 1
                       /\ SubSeq(organizations', 1, Len(organizations)) = organizations
                       /\ organizations'[Len(organizations')].name = req[r].org
                       /\ ~users[email].exists
                       /\ users'[email].exists
                       /\ ~users'[email].verified
                       /\ users'[email].organizationId = Len(organizations')
                       /\ \A e \in Emails \ {email} : users'[e] = users[e]
                       /\ userRoles' = Append(userRoles, [userId |-> email, role |-> "OWNER"])
                       /\ Len(otpSessions') = Len(otpSessions) + 1
                       /\ SubSeq(otpSessions', 1, Len(otpSessions)) = otpSessions
                       /\ otpSessions'[Len(otpSessions')].email = email
                       /\ otpSessions'[Len(otpSessions')].active
                       /\ otpSessions'[Len(otpSessions')].purpose = "EMAIL_VERIFICATION"
                       /\ Len(otpTokens') = Len(otpTokens) + 1
                       /\ SubSeq(otpTokens', 1, Len(otpTokens)) = otpTokens
                       /\ otpTokens'[Len(otpTokens')].sessionId = Len(otpSessions')
                       /\ otpTokens'[Len(otpTokens')].consumedAt = NULL
                  ELSE UNCHANGED <<organizations, users, userRoles, otpSessions, otpTokens>>]_vars

\* Two overlapping registrations of one address have ended, one with 201
\* and the other, after it had staged its organization, with 500; and the
\* tables hold the rows of the first only.
C18_Witness ==
    /\ req["r1"].op = "register" /\ req["r1"].pc = "done" /\ req["r1"].resp.status = 201
    /\ req["r2"].op = "register" /\ req["r2"].pc = "done" /\ req["r2"].resp.status = 500
    /\ req["r1"].email = req["r2"].email
    /\ generateSlug(req["r1"].org) = generateSlug(req["r2"].org)
    /\ Len(organizations) = 1
    /\ Len(userRoles) = 1

\* C19: logout and forgot-password never surface a failure. Whatever path
\* a logout or a forgot-password request took, a failing store call
\* included, its answer is the 200 success result of that endpoint, and the
\* answer of a logout clears the auth cookie.
C19_NeverSurfacesFailure ==
    \A r \in Procs :
        req[r].pc = "done"
        => /\ req[r].op = "logout"
              => /\ req[r].resp.status = 200
                 /\ req[r].resp.code = "OK"
                 /\ req[r].resp.message = "Logged out successfully"
                 /\ req[r].resp.extra >= 0
                 /\ req[r].cleared
           /\ req[r].op = "forgot"
              => /\ req[r].resp.status = 200
                 /\ req[r].resp.code = "OK"
                 /\ req[r].resp.message = ForgotMessage

\* A logout whose transaction failed has answered: the session of its
\* cookie is still live, the answer counts no session and clears the cookie.
C19_Witness ==
    /\ req["r1"].op = "logout" /\ req["r1"].pc = "done"
    /\ req["r1"].log = "Internal error during logout - proceeding with logout anyway"
    /\ req["r1"].auth \in Indices(sessions)
    /\ sessions[req["r1"].auth].revokedAt = NULL
    /\ req["r1"].resp = logoutResult(0)
    /\ req["r1"].cleared

\* C20: authenticate lets the request proceed, with the session in the auth
\* context, only if no check fails, and otherwise answers with the error of
\* the first failing check in the order: token absent (AUTH_REQUIRED),
\* session not found (SESSION_INVALID), revoked (SESSION_REVOKED), expired
\* (SESSION_EXPIRED), user missing (DATA_INTEGRITY_ERROR), user unverified
\* (EMAIL_NOT_VERIFIED), user locked (ACCOUNT_LOCKED), organization missing
\* (DATA_INTEGRITY_ERROR), organization soft-deleted (ORG_INACTIVE); the
\* four 401 answers clear the cookie, and EMAIL_NOT_VERIFIED, ACCOUNT_LOCKED
\* and ORG_INACTIVE keep it.
C20_FirstFailingCheckDecides ==
    [][\A r \in Procs :
           (At(r, "me", "auth") /\ req'[r].pc = "done")
           => LET token == req[r].tok
                  found == token \in Indices(sessions)
                  userId == sessions[token].userId
                  known == found /\ users[userId].exists
                  failing == {k \in 1..9 :
                                 \/ k = 1 /\ token = NULL
                                 \/ k = 2 /\ ~found
                                 \/ k = 3 /\ found /\ sessions[token].revokedAt # NULL
                                 \/ k = 4 /\ found /\ sessions[token].expiresAt < now
                                 \/ k = 5 /\ found /\ ~users[userId].exists
                                 \/ k = 6 /\ known /\ ~users[userId].verified
                                 \/ k = 7 /\ known /\ users[userId].isLocked
                                 \/ k = 8 /\ known /\ users[userId].organizationId = NULL
                                 \/ k = 9 /\ known /\ users[userId].orgDeleted}
                  first == CHOOSE k \in failing : \A j \in failing : k <= j
                  codes == <<"AUTH_REQUIRED", "SESSION_INVALID", "SESSION_REVOKED",
                             "SESSION_EXPIRED", "DATA_INTEGRITY_ERROR", "EMAIL_NOT_VERIFIED",
                             "ACCOUNT_LOCKED", "DATA_INTEGRITY_ERROR", "ORG_INACTIVE">>
                  answer == req'[r].resp
              IN  IF failing = {}
                  THEN /\ answer.status = 200
                       /\ req'[r].auth = token
                       /\ ~req'[r].cleared
                  ELSE /\ answer.status # 200
                       /\ answer.code = codes[first]
                       /\ req'[r].auth = 0
                       /\ first \in 1..4 => answer.status = 401 /\ req'[r].cleared
                       /\ first \in {6, 7, 9} => answer.status = 403 /\ ~req'[r].cleared]_vars

\* The request of a live session whose user is unverified and locked and
\* whose organization is soft-deleted has been answered EMAIL_NOT_VERIFIED,
\* with the cookie kept.
C20_Witness ==
    /\ req["r1"].op = "me" /\ req["r1"].pc = "done"
    /\ req["r1"].tok = 1
    /\ req["r1"].resp = authEmailNotVerified
    /\ ~req["r1"].cleared
    /\ users["a@x.com"].exists /\ users["a@x.com"].isLocked /\ users["a@x.com"].orgDeleted
    /\ sessions[1].revokedAt = NULL /\ sessions[1].expiresAt >= now

\* The permission strings a user holds: the union, over the roles assigned
\* to the user, of the permissions of the role.
HeldPermissions(userId) ==
    UNION {{p.resource \o ":" \o p.action : p \in {q \in rolePermissions : q.role = role}} :
               role \in {userRoles[i].role : i \in {j \in Indices(userRoles) :
                                                       userRoles[j].userId = userId}}}

\* C21: requirePermission(resource, action) lets the request proceed, with
\* userContext set, exactly when the permissions of the user's roles hold
\* "resource:action", "resource:*" or "*:*"; otherwise, and when the user
\* cannot be loaded, it answers 403 and sets no userContext.
C21_PermissionDecides ==
    [][\A r \in Procs :
           (req[r].op \in {"clients", "guard"} /\ req[r].pc = "permit" /\ req'[r].pc # "permit")
           => LET userId == sessions[req[r].auth].userId
                  wanted == {req[r].resource \o ":" \o req[r].action,
                             req[r].resource \o ":*", "*:*"}
                  granted == users[userId].exists /\ HeldPermissions(userId) \cap wanted # {}
              IN  IF granted
                  THEN /\ req'[r].resp.status \in {0, 200}
                       /\ req'[r].resp.status = 0 <=> req'[r].pc = "query"
                       /\ req'[r].ctx # NoContext
                       /\ req'[r].ctx.userId = userId
                       /\ req'[r].ctx.sessionId = req[r].auth
                  ELSE /\ req'[r].pc = "done"
                       /\ req'[r].resp.status = 403
                       /\ req'[r].ctx = NoContext]_vars

\* a@x.com, whose roles hold no exact "clients:delete" but a wildcard, has
\* passed requirePermission("clients", "delete").
C21_Witness ==
    /\ req["r1"].op = "guard" /\ req["r1"].pc = "done"
    /\ req["r1"].resource = "clients" /\ req["r1"].action = "delete"
    /\ req["r1"].resp.status = 200
    /\ req["r1"].ctx.userId = "a@x.com"
    /\ "clients:delete" \notin HeldPermissions("a@x.com")
    /\ "*:read" \in HeldPermissions("a@x.com")

LockedAt(email, t) ==
    LET sid == findActiveOtpSession(otpSessions, email)
    IN  /\ sid # NULL
        /\ otpSessions[sid].expiresAt >= t
        /\ otpSessions[sid].lockUntil # NULL
        /\ otpSessions[sid].lockUntil > t

\* The same session with a lock that t has reached.
LockElapsedAt(email, t) ==
    LET sid == findActiveOtpSession(otpSessions, email)
    IN  /\ sid # NULL
        /\ otpSessions[sid].expiresAt >= t
        /\ otpSessions[sid].lockUntil # NULL
        /\ otpSessions[sid].lockUntil <= t

\* C23: with requests one after another, a verify-email request that reaches
\* the session check while the session's lockUntil is later than now is
\* answered 429 SESSION_LOCKED whatever its code, and changes no user, no
\* session (attemptCount included) and no token; no verify-email request
\* changes a user, a session or a token while the lock is in force. Once now has reached
\* lockUntil the session check lets the request through without any unlock
\* having been written, and the correct code of the newest unconsumed,
\* unexpired token then verifies the user.
C23_LockBlocksThenElapses ==
    [][\A r \in Procs :
        (req[r].op = "verify" /\ req'[r] # req[r]) =>
        LET email == req[r].email
            sid == findActiveOtpSession(otpSessions, email)
            tid == Newest(findUnconsumedOtpTokens(otpTokens, sid))
        IN  /\ LockedAt(email, now) => UNCHANGED <<users, otpSessions, otpTokens>>
            /\ (req[r].pc = "session" /\ LockedAt(email, now))
               => /\ req'[r].pc = "done"
                  /\ UNCHANGED db
                  /\ req'[r].resp.status = 429
                  /\ req'[r].resp.code = "SESSION_LOCKED"
            /\ (req[r].pc = "session" /\ LockElapsedAt(email, now))
               => req'[r].pc = "tokens" /\ req'[r].sid = sid /\ UNCHANGED db
            /\ (req[r].pc = "tokens" /\ LockElapsedAt(email, now)
                  /\ tid # NULL /\ otpTokens[tid].expiresAt >= now
                  /\ verifyOTP(req[r].code, otpTokens[tid].codeHash))
               => req'[r].pc = "tx"
            /\ (req[r].pc = "tx" /\ LockElapsedAt(email, now))
               => /\ users'[email].verified
                  /\ req'[r].resp.status = 200
                  /\ otpSessions'[sid].lockUntil = otpSessions[sid].lockUntil
    ]_vars

\* A request with the correct code has been refused under the lock.
C23_Witness ==
    \E r \in Procs :
        /\ req[r].op = "verify" /\ req[r].pc = "done"
        /\ req[r].resp.code = "SESSION_LOCKED"
        /\ LockedAt(req[r].email, now)
        /\ \E tid \in Indices(otpTokens) :
              /\ otpTokens[tid].consumedAt = NULL
              /\ verifyOTP(req[r].code, otpTokens[tid].codeHash)
        /\ ~users[req[r].email].verified

\* A request has verified the user against a session whose lock had elapsed.
C23_WitnessElapsed ==
    \E r \in Procs, sid \in Indices(otpSessions) :
        /\ req[r].op = "verify" /\ req[r].pc = "done" /\ req[r].resp.status = 200
        /\ users[req[r].email].verified
        /\ otpSessions[sid].lockUntil # NULL
        /\ otpSessions[sid].lockUntil <= now
        /\ ~otpSessions[sid].active

\* The SUCCESS rows of the OtpAttempt table for a session, counted with
\* their multiplicity.
SuccessRows(as, sid) ==
    LET rows == {a \in BagToSet(as) : a.sessionId = sid /\ a.status = "SUCCESS"}
    IN  BagCardinality([a \in rows |-> CopiesIn(a, as)])

\* C24: the success transaction of verify-email commits all of its writes or
\* none: the step that runs it either leaves the matched token consumed, its
\* session inactive and the user verified, adds exactly one SUCCESS
\* OtpAttempt row and answers 200, or (a statement having failed) leaves
\* tokens, sessions, users and attempt rows as they were and answers 500; no
\* other step of a verify-email request consumes a token, deactivates a
\* session or verifies a user.
C24_VerifySuccessAtomic ==
    [][\A r \in Procs :
        (req[r].op = "verify" /\ req'[r] # req[r]) =>
        LET sid == req[r].sid
            tid == req[r].tid
            email == req[r].email
        IN  IF req[r].pc = "tx"
            THEN \/ /\ otpTokens'[tid].consumedAt # NULL
                    /\ ~otpSessions'[sid].active
                    /\ users'[email].verified
                    /\ SuccessRows(otpAttempts', sid) = SuccessRows(otpAttempts, sid) + 1
                    /\ req'[r].resp.status = 200
                 \/ /\ UNCHANGED <<otpTokens, otpSessions, users, otpAttempts>>
                    /\ req'[r].resp.status = 500
            ELSE /\ UNCHANGED <<otpTokens, users>>
                 /\ \A i \in Indices(otpSessions) : otpSessions'[i].active = otpSessions[i].active
                 /\ \A i \in Indices(otpSessions) :
                        SuccessRows(otpAttempts', i) = SuccessRows(otpAttempts, i)
    ]_vars

\* A statement of the success transaction has failed after the first writes
\* were staged: the request is answered 500 and the user, the session and
\* the token are as before.
C24_Witness ==
    \E r \in Procs :
        /\ req[r].op = "verify" /\ req[r].pc = "done"
        /\ req[r].log = "Internal error during email verification"
        /\ ~users[req[r].email].verified
        /\ \E sid \in Indices(otpSessions) :
              /\ otpSessions[sid].email = req[r].email /\ otpSessions[sid].active
              /\ findUnconsumedOtpTokens(otpTokens, sid) # {}
              /\ SuccessRows(otpAttempts, sid) = 0

\* The success transaction has committed.
C24_WitnessCommitted ==
    \E r \in Procs, sid \in Indices(otpSessions) :
        /\ req[r].op = "verify" /\ req[r].pc = "done" /\ req[r].resp.status = 200
        /\ req[r].resp.message = "Email verified successfully"
        /\ users[req[r].email].verified
        /\ ~otpSessions[sid].active
        /\ SuccessRows(otpAttempts, sid) = 1

\* C25: with requests one after another, the rotation step of a resend marks
\* every unconsumed token of its session consumed, appends exactly one new
\* token to the session, adds exactly 1 to resendCount and sets lastSentAt
\* to now, in one step, touching no other session and no other session's
\* token; the session then has exactly one unconsumed token, the new one.
\* Against a session that has been rotated and is still verifiable, a
\* verify-email request goes on to success exactly when its code is the code
\* of that newest token, and otherwise to the wrong-code path that answers
\* INVALID_CODE: a previously issued code is refused unless it equals the
\* new one.
C25_RotationReplacesToken ==
    [][\A r \in Procs :
        /\ (req[r].op = "resend" /\ req[r].pc = "rotate" /\ req'[r] # req[r]) =>
           LET sid == req[r].sid
               new == Len(otpTokens) + 1
           IN  /\ Len(otpTokens') = new
               /\ otpTokens'[new].sessionId = sid
               /\ otpTokens'[new].consumedAt = NULL
               /\ otpTokens'[new].expiresAt = now + OtpTokenLifetime
               /\ \A i \in Indices(otpTokens) :
                      IF otpTokens[i].sessionId = sid
                      THEN otpTokens'[i].consumedAt # NULL
                      ELSE otpTokens'[i] = otpTokens[i]
               /\ findUnconsumedOtpTokens(otpTokens', sid) = {new}
               /\ otpSessions'[sid].resendCount = otpSessions[sid].resendCount + 1
               /\ otpSessions'[sid].lastSentAt = now
               /\ \A i \in Indices(otpSessions) : i # sid => otpSessions'[i] = otpSessions[i]
               /\ Len(otpSessions') = Len(otpSessions)
               /\ req'[r].resp.status = 200
        /\ (req[r].op = "verify" /\ req'[r] # req[r]) =>
           LET email == req[r].email
               sid == findActiveOtpSession(otpSessions, email)
               tid == Newest(findUnconsumedOtpTokens(otpTokens, sid))
           IN  /\ (req[r].pc = "tokens" /\ Verifiable(email, now)
                     /\ otpSessions[sid].resendCount > 0)
                  => /\ findUnconsumedOtpTokens(otpTokens, sid) = {tid}
                     /\ req'[r].tid = tid
                     /\ req'[r].pc = IF verifyOTP(req[r].code, otpTokens[tid].codeHash)
                                     THEN "tx" ELSE "inc_read"
               /\ req[r].pc = "attempt" => req'[r].resp.code = "INVALID_CODE"
               /\ req[r].pc = "tx"
                  => req'[r].resp.status = 200 /\ users'[email].verified
    ]_vars

\* After a rotation, the previously issued code has been refused with
\* INVALID_CODE: the request's code is that of a consumed token of the
\* rotated session and not that of its one unconsumed token.
C25_Witness ==
    \E r \in Procs, sid \in Indices(otpSessions) :
        /\ req[r].op = "verify" /\ req[r].pc = "done"
        /\ req[r].resp.code = "INVALID_CODE"
        /\ otpSessions[sid].email = req[r].email
        /\ otpSessions[sid].resendCount > 0
        /\ otpSessions[sid].lastSentAt = now
        /\ Cardinality(findUnconsumedOtpTokens(otpTokens, sid)) = 1
        /\ \E i \in Indices(otpTokens) :
              /\ otpTokens[i].sessionId = sid
              /\ otpTokens[i].consumedAt # NULL
              /\ verifyOTP(req[r].code, otpTokens[i].codeHash)

\* After a rotation to a different code, the new code has verified the user.
C25_WitnessNewCode ==
    \E r \in Procs, sid \in Indices(otpSessions), i \in Indices(otpTokens), j \in Indices(otpTokens) :
        /\ req[r].op = "verify" /\ req[r].pc = "done" /\ req[r].resp.status = 200
        /\ users[req[r].email].verified
        /\ otpSessions[sid].resendCount > 0
        /\ otpTokens[i].sessionId = sid /\ otpTokens[j].sessionId = sid
        /\ i < j
        /\ otpTokens[i].codeHash # otpTokens[j].codeHash
        /\ verifyOTP(req[r].code, otpTokens[j].codeHash)

\* A reset-password request has succeeded for the address: a SUCCESS row of
\* purpose PASSWORD_RESET exists for one of its sessions.
ResetDone(email) ==
    \E a \in BagToSet(otpAttempts) :
        /\ a.purpose = "PASSWORD_RESET" /\ a.status = "SUCCESS"
        /\ otpSessions[a.sessionId].email = email

\* C26: the success step of reset-password leaves the user with the hash of
\* the new password, loginAttempts 0, isLocked false and verified true,
\* whatever these were before, and in the same step the used token consumed
\* and the PASSWORD_RESET session inactive; no other step of the request
\* changes a user, consumes a token or deactivates a session. With requests
\* one after another and the new password different from the old one, a
\* login after the reset, on the account not locked again since, goes on to
\* success with the new password and to 401 INVALID_CREDENTIALS with the
\* old one.
C26_ResetRestoresAccount ==
    [][\A r \in Procs :
        /\ (req[r].op = "reset" /\ req'[r] # req[r]) =>
           LET email == req[r].email
           IN  IF req[r].pc = "tx"
               THEN /\ users' = [users EXCEPT ![email] =
                                    [users[email] EXCEPT !.password = hashPassword(req[r].newpw),
                                                         !.loginAttempts = 0,
                                                         !.isLocked = FALSE,
                                                         !.verified = TRUE]]
                    /\ otpTokens'[req[r].tid].consumedAt # NULL
                    /\ otpSessions'[req[r].sid].purpose = "PASSWORD_RESET"
                    /\ ~otpSessions'[req[r].sid].active
                    /\ req'[r].resp.status = 200
               ELSE /\ UNCHANGED <<users, otpTokens>>
                    /\ \A i \in Indices(otpSessions) :
                           otpSessions'[i].active = otpSessions[i].active
        /\ (req[r].op = "login" /\ req'[r] # req[r] /\ ResetDone(req[r].email)) =>
           LET email == req[r].email
           IN  /\ (req[r].pc = "user" /\ ~users[email].isLocked)
                  => req'[r].pc = IF req[r].pw = "Hunter22" THEN "tx" ELSE "inc"
               /\ req[r].pc = "inc"
                  => req'[r].resp.status = 401 /\ req'[r].resp.code = "INVALID_CREDENTIALS"
               /\ req[r].pc = "tx"
                  => req'[r].resp.status = 200 /\ req'[r].auth # NULL
    ]_vars

\* The password has been reset, and a login with the old password has then
\* been refused with INVALID_CREDENTIALS and counted as the first failure.
C26_Witness ==
    \E r \in Procs :
        /\ req[r].op = "login" /\ req[r].pc = "done"
        /\ req[r].pw = "Passw0rd"
        /\ req[r].resp.code = "INVALID_CREDENTIALS"
        /\ ResetDone(req[r].email)
        /\ users[req[r].email].password = hashPassword("Hunter22")
        /\ users[req[r].email].loginAttempts = 1
        /\ users[req[r].email].verified

\* A user that never verified its address has reset the password and logged
\* in with the new one.
C26_WitnessUnverified ==
    \E r \in Procs :
        /\ req[r].op = "login" /\ req[r].pc = "done" /\ req[r].resp.status = 200
        /\ req[r].pw = "Hunter22"
        /\ ResetDone(req[r].email)
        /\ \E sid \in Indices(otpSessions) :
              /\ otpSessions[sid].purpose = "EMAIL_VERIFICATION"
              /\ otpSessions[sid].email = req[r].email
              /\ otpSessions[sid].active

\* The reset-password requests that have succeeded with a token: its SUCCESS
\* rows of purpose PASSWORD_RESET, counted with their multiplicity.
ResetsWith(as, tid) ==
    LET rows == {a \in BagToSet(as) : /\ a.tokenId = tid
                                      /\ a.purpose = "PASSWORD_RESET"
                                      /\ a.status = "SUCCESS"}
    IN  BagCardinality([a \in rows |-> CopiesIn(a, as)])

\* C27: a password-reset code is single-use: for every OtpToken at most one
\* reset-password request ever succeeds with it, also when two requests with
\* the same correct code overlap.
C27_ResetCodeSingleUse ==
    \A tid \in Indices(otpTokens) : ResetsWith(otpAttempts, tid) <= 1

\* C28: a forgot-password request for an existing user whose active
\* PASSWORD_RESET session has expired, with no lock in force, goes on to
\* create a new session rather than to rotate a token inside the expired
\* one; and every token that a forgot-password request issues is in an
\* active session that has not expired, so that a reset-password with it can
\* succeed.
C28_ExpiredResetSessionReplaced ==
    [][\A r \in Procs :
        (req[r].op = "forgot" /\ req'[r] # req[r]) =>
        LET sid == findActivePasswordResetSession(otpSessions, req[r].email)
            new == Len(otpTokens')
        IN  /\ (req[r].pc = "session" /\ sid # NULL /\ otpSessions[sid].expiresAt < now)
               => req'[r].pc = "create"
            /\ req[r].pc \in {"rotate", "create"}
               => /\ new = Len(otpTokens) + 1
                  /\ otpSessions'[otpTokens'[new].sessionId].active
                  /\ otpSessions'[otpTokens'[new].sessionId].expiresAt >= now
    ]_vars

\* The tokens ever created in a session.
TokensOf(ts, sid) == Cardinality({i \in Indices(ts) : ts[i].sessionId = sid})

\* C29: in every reachable state, overlapping resend-code requests included,
\* no OtpSession has resendCount above MAX_RESENDS or more than
\* MAX_RESENDS + 1 tokens ever created in it, and no step issues a token in
\* a session whose resendCount has reached MAX_RESENDS.
C29_ResendCapHolds ==
    [][\A sid \in Indices(otpSessions) :
        /\ otpSessions'[sid].resendCount <= MAX_RESENDS
        /\ TokensOf(otpTokens', sid) <= MAX_RESENDS + 1
        /\ otpSessions[sid].resendCount >= MAX_RESENDS
           => TokensOf(otpTokens', sid) = TokensOf(otpTokens, sid)
    ]_vars

\* C30: the terminal states of an OtpSession are terminal: a session that is
\* inactive stays inactive in every step, and every verify-email or
\* reset-password request that succeeds does so against a session that is
\* active and unexpired at the step that commits the success.
C30_TerminalStatesTerminal ==
    [][/\ \A sid \in Indices(otpSessions) :
              ~otpSessions[sid].active => ~otpSessions'[sid].active
       /\ \A r \in Procs :
              (/\ req[r].op \in {"verify", "reset"}
               /\ req[r].pc = "tx"
               /\ req'[r].pc = "done"
               /\ req'[r].resp.status = 200)
              => /\ otpSessions[req[r].sid].active
                 /\ otpSessions[req[r].sid].expiresAt >= now
    ]_vars

\* C31 as stated: a session passes the session check of authenticate exactly
\* when revokedAt is null and expiresAt > now, so a request at the instant
\* now = expiresAt is answered SESSION_EXPIRED, and logout treats that
\* session as already expired (sessionsRevoked = 0, nothing written).
C31_ValidIffStrictlyBeforeExpiry ==
    [][\A r \in Procs :
        LET sid == req[r].tok
        IN  (req'[r] # req[r] /\ sid \in Indices(sessions)) =>
            /\ At(r, "me", "auth")
               => (req'[r].resp.code = "SESSION_EXPIRED"
                   <=> (sessions[sid].revokedAt = NULL /\ sessions[sid].expiresAt <= now))
            /\ At(r, "logout", "find")
               => (req'[r].pc = "tx"
                   <=> (sessions[sid].revokedAt = NULL /\ sessions[sid].expiresAt > now))
    ]_vars

\* C31 as the code has it: a session passes the session check of
\* authenticate exactly when revokedAt is null and expiresAt >= now: a
\* revoked session is answered SESSION_REVOKED, an unrevoked one is answered
\* SESSION_EXPIRED exactly when expiresAt < now, and at now = expiresAt it is
\* still accepted. logout goes on to revoke under the same condition and
\* otherwise reports sessionsRevoked = 0 and writes nothing.
C31_ValidUntilExpiryInclusive ==
    [][\A r \in Procs :
        LET sid == req[r].tok
        IN  (req'[r] # req[r] /\ sid \in Indices(sessions)) =>
            /\ At(r, "me", "auth")
               => /\ req'[r].resp.code = "SESSION_REVOKED" <=> sessions[sid].revokedAt # NULL
                  /\ req'[r].resp.code = "SESSION_EXPIRED"
                     <=> (sessions[sid].revokedAt = NULL /\ sessions[sid].expiresAt < now)
                  /\ req'[r].resp.status = 401
                     <=> (sessions[sid].revokedAt # NULL \/ sessions[sid].expiresAt < now)
            /\ At(r, "logout", "find")
               => /\ req'[r].pc = "tx"
                     <=> (sessions[sid].revokedAt = NULL /\ sessions[sid].expiresAt >= now)
                  /\ req'[r].pc # "tx"
                     => /\ req'[r].pc = "done"
                        /\ req'[r].resp.extra = 0
                        /\ UNCHANGED sessions
    ]_vars

\* A request has been authenticated at the instant its session expires.
C31_Witness ==
    \E r \in Procs :
        /\ req[r].op = "me" /\ req[r].pc = "done" /\ req[r].resp.status = 200
        /\ req[r].tok \in Indices(sessions)
        /\ sessions[req[r].tok].revokedAt = NULL
        /\ sessions[req[r].tok].expiresAt = now

\* C32: with requests one after another, the success step of a login sets
\* loginAttempts of its user to 0 and changes nothing else of any user,
\* appends exactly one Session of that user, unrevoked and expiring
\* SESSION_EXPIRY_DAYS later, and leaves every existing session as it was;
\* a wrong-password login adds exactly 1 to the count; so the count is the
\* number of wrong passwords since the last successful login, and the
\* account is locked in a step only when that step takes the count to
\* MAX_LOGIN_ATTEMPTS.
C32_SuccessfulLoginResetsCount ==
    [][\A r \in Procs :
        (req[r].op = "login" /\ req'[r] # req[r]) =>
        LET email == req[r].email
            new == Len(sessions) + 1
        IN  /\ req[r].pc = "tx"
               => /\ users' = [users EXCEPT ![email].loginAttempts = 0]
                  /\ Len(sessions') = new
                  /\ \A i \in Indices(sessions) : sessions'[i] = sessions[i]
                  /\ sessions'[new].userId = email
                  /\ sessions'[new].revokedAt = NULL
                  /\ sessions'[new].expiresAt = now + SESSION_EXPIRY_DAYS * 24 * 60 * 60 * ClockTicksPerSecond
                  /\ req'[r].resp.status = 200
            /\ req[r].pc = "inc"
               => /\ users'[email].loginAttempts = users[email].loginAttempts + 1
                  /\ sessions' = sessions
            /\ req[r].pc = "user" => users' = users /\ sessions' = sessions
            /\ (~users[email].isLocked /\ users'[email].isLocked)
               => /\ req[r].pc = "inc"
                  /\ users[email].loginAttempts = MAX_LOGIN_ATTEMPTS - 1
    ]_vars

\* Wrong passwords after a successful login: the user holds the session of
\* that login, has been refused MAX_LOGIN_ATTEMPTS - 1 times since, and is
\* not locked.
C32_Witness ==
    \E r \in Procs :
        /\ req[r].op = "login" /\ req[r].pc = "done"
        /\ req[r].resp.code = "INVALID_CREDENTIALS"
        /\ \E i \in Indices(sessions) :
              sessions[i].userId = req[r].email /\ sessions[i].revokedAt = NULL
        /\ users[req[r].email].loginAttempts = MAX_LOGIN_ATTEMPTS - 1
        /\ ~users[req[r].email].isLocked

\* C33: a login whose user is missing, unverified, locked or of a
\* soft-deleted organization is answered at its first step, by the first of
\* these checks that fails in that order (401 INVALID_CREDENTIALS, 403
\* ACCOUNT_NOT_VERIFIED, 401 ACCOUNT_LOCKED, 403 ORGANIZATION_INACTIVE),
\* whatever password it carries, and that step changes no user (loginAttempts
\* and isLocked included) and creates no Session.
C33_EarlyRejectionChangesNothing ==
    [][\A r \in Procs :
        LET user == users[req[r].email]
        IN  (At(r, "login", "user") /\ req'[r] # req[r]
             /\ (~user.exists \/ ~user.verified \/ user.isLocked \/ user.orgDeleted))
            => /\ req'[r].pc = "done"
               /\ req'[r].resp.status = (IF ~user.exists THEN 401
                                         ELSE IF ~user.verified THEN 403
                                         ELSE IF user.isLocked THEN 401
                                         ELSE 403)
               /\ req'[r].resp.code = (IF ~user.exists THEN "INVALID_CREDENTIALS"
                                       ELSE IF ~user.verified THEN "ACCOUNT_NOT_VERIFIED"
                                       ELSE IF user.isLocked THEN "ACCOUNT_LOCKED"
                                       ELSE "ORGANIZATION_INACTIVE")
               /\ UNCHANGED <<users, sessions, otpSessions, otpTokens, otpAttempts>>
    ]_vars

\* A wrong password for an account that is unverified and locked has been
\* answered ACCOUNT_NOT_VERIFIED and not counted.
C33_Witness ==
    \E r \in Procs :
        /\ req[r].op = "login" /\ req[r].pc = "done"
        /\ req[r].resp.code = "ACCOUNT_NOT_VERIFIED"
        /\ ~verifyPassword(req[r].pw, users[req[r].email].password)
        /\ users[req[r].email].isLocked
        /\ users[req[r].email].loginAttempts = MAX_LOGIN_ATTEMPTS
        /\ sessions = <<>>

\* The session a logout cookie names is one that logout revokes: found,
\* unrevoked and unexpired.
Revocable(token, t) ==
    /\ token \in Indices(sessions)
    /\ sessions[token].revokedAt = NULL
    /\ sessions[token].expiresAt >= t

\* C34: with requests one after another, a logout with the token of an
\* unrevoked, unexpired session and everywhere = false sets revokedAt and
\* revokedReason of exactly that session and reports sessionsRevoked = 1;
\* with everywhere = true it does so for every unrevoked session of that
\* session's user, for no session of another user and for no session already
\* revoked, and reports their number; a logout with a missing, unknown,
\* revoked or expired token changes no Session row and reports
\* sessionsRevoked = 0. No step of a logout changes a user.
C34_LogoutRevokesExactly ==
    [][\A r \in Procs :
        (req[r].op = "logout" /\ req'[r] # req[r]) =>
        LET sid == req[r].tok
            mine == {i \in Indices(sessions) :
                        /\ sessions[i].userId = sessions[sid].userId
                        /\ sessions[i].revokedAt = NULL}
        IN  /\ UNCHANGED users
            /\ req[r].pc = "find"
               => /\ UNCHANGED sessions
                  /\ IF Revocable(sid, now)
                     THEN req'[r].pc = "tx"
                     ELSE /\ req'[r].pc = "done"
                          /\ req'[r].resp.status = 200
                          /\ req'[r].resp.extra = 0
            /\ req[r].pc = "tx"
               => /\ Revocable(sid, now)
                  /\ Len(sessions') = Len(sessions)
                  /\ req'[r].pc = "done"
                  /\ req'[r].resp.status = 200
                  /\ IF req[r].everywhere
                     THEN /\ \A i \in Indices(sessions) :
                                 sessions'[i] = IF i \in mine
                                                THEN [sessions[i] EXCEPT
                                                         !.revokedAt = now,
                                                         !.revokedReason = "logout_everywhere"]
                                                ELSE sessions[i]
                          /\ req'[r].resp.extra = Cardinality(mine)
                     ELSE /\ sessions' = [sessions EXCEPT ![sid].revokedAt = now,
                                                          ![sid].revokedReason = "logout"]
                          /\ req'[r].resp.extra = 1
    ]_vars

\* A logout everywhere has revoked the two sessions of its user and left the
\* session of the other user live.
C34_Witness ==
    \E r \in Procs, i \in Indices(sessions) :
        /\ req[r].op = "logout" /\ req[r].pc = "done" /\ req[r].everywhere
        /\ req[r].resp.extra = 2
        /\ sessions[req[r].tok].revokedReason = "logout_everywhere"
        /\ sessions[i].userId # sessions[req[r].tok].userId
        /\ sessions[i].revokedAt = NULL

\* A repeated logout with the token of a revoked session has reported 0 and
\* left the reason of the first logout in place.
C34_WitnessRepeated ==
    \E r \in Procs :
        /\ req[r].op = "logout" /\ req[r].pc = "done" /\ req[r].everywhere
        /\ req[r].resp.extra = 0
        /\ req[r].tok \in Indices(sessions)
        /\ sessions[req[r].tok].revokedReason = "logout"

\* C35: the step of authenticate that accepts a request leaves a
\* lastActivity write behind exactly when now - lastActivity of the session
\* is at least SESSION_ACTIVITY_UPDATE_THRESHOLD_MINUTES, answers the
\* request in that same step, before the write has run, and writes nothing
\* itself; a rejected request leaves no write behind. The write, when it
\* runs, changes lastActivity of that session and nothing else; when it
\* fails it changes nothing; either way no request is changed by it.
C35_ActivityWriteThrottledAndDetached ==
    [][/\ \A r \in Procs :
              (At(r, "me", "auth") /\ req'[r] # req[r]) =>
              LET sid == req[r].tok
                  accepted == req'[r].resp.status = 200
              IN  /\ UNCHANGED <<sessions, users>>
                  /\ req'[r].pc = "done"
                  /\ bg' = IF /\ accepted
                              /\ now - sessions[sid].lastActivity
                                   >= SESSION_ACTIVITY_UPDATE_THRESHOLD_MINUTES * 60 * ClockTicksPerSecond
                           THEN bg \cup {sid} ELSE bg
       /\ \A sid \in bg :
              sid \notin bg'
              => /\ UNCHANGED <<req, users, now>>
                 /\ \/ sessions' = sessions
                    \/ sessions' = [sessions EXCEPT ![sid].lastActivity = now]
    ]_vars

\* A request has been answered 200 at exactly the threshold while the
\* lastActivity write it issued has not run yet.
C35_Witness ==
    \E r \in Procs :
        /\ req[r].op = "me" /\ req[r].pc = "done" /\ req[r].resp.status = 200
        /\ req[r].tok \in bg
        /\ now - sessions[req[r].tok].lastActivity = ActivityThreshold

\* C36: attemptCount of an OTP session never goes down, and a wrong code
\* counted on a session that already holds maxAttempts wrong codes finds the
\* earlier lock elapsed, raises attemptCount above maxAttempts, sets
\* lockUntil to now + OtpLockDuration and is answered with attemptsRemaining
\* 0: one wrong code per lock window.
C36_AttemptCountOnlyGrowsAndRelocks ==
    [][ /\ \A s \in Indices(otpSessions) :
              /\ otpSessions'[s].attemptCount >= otpSessions[s].attemptCount
              /\ (/\ otpSessions[s].attemptCount >= otpSessions[s].maxAttempts
                  /\ otpSessions'[s].attemptCount # otpSessions[s].attemptCount)
                 => /\ otpSessions[s].lockUntil # NULL
                    /\ otpSessions[s].lockUntil <= now
                    /\ otpSessions'[s].attemptCount > otpSessions[s].maxAttempts
                    /\ otpSessions'[s].lockUntil = now + OtpLockDuration
                    /\ \E r \in Procs : /\ req[r].pc = "inc_write"
                                        /\ req[r].sid = s
                                        /\ req'[r].pc = "attempt"
                                        /\ req'[r].cnt = 0
        /\ \A r \in Procs :
              (/\ req[r].pc = "attempt"
               /\ req'[r].pc = "done"
               /\ otpSessions[req[r].sid].attemptCount > otpSessions[req[r].sid].maxAttempts)
              => /\ req'[r].resp \in {invalidVerificationCode(0), invalidPasswordResetCode(0)}
                 /\ otpSessions[req[r].sid].lockUntil = now + OtpLockDuration
      ]_vars

\* Wrong codes after two elapsed locks: a verification session counts
\* maxAttempts + 2 of them and is locked again.
C36_Witness ==
    \E s \in Indices(otpSessions), r \in Procs :
        /\ otpSessions[s].attemptCount = otpSessions[s].maxAttempts + 2
        /\ otpSessions[s].lockUntil = now + OtpLockDuration
        /\ req[r].op = "verify" /\ req[r].pc = "done"
        /\ req[r].resp = invalidVerificationCode(0)

\* A wrong reset code after an elapsed lock is answered with no attempts
\* remaining and a new lock.
C36_WitnessReset ==
    \E s \in Indices(otpSessions), r \in Procs :
        /\ otpSessions[s].attemptCount = otpSessions[s].maxAttempts + 1
        /\ otpSessions[s].lockUntil = now + OtpLockDuration
        /\ now > 0
        /\ req[r].op = "reset" /\ req[r].pc = "done"
        /\ req[r].resp = invalidPasswordResetCode(0)

\* C37: in every reachable state, the user of every auth Session row is
\* verified.
C37_SessionsBelongToVerifiedUsers ==
    \A s \in Indices(sessions) :
        /\ users[sessions[s].userId].exists
        /\ users[sessions[s].userId].verified

\* A login of the unverified user has been refused, and a later login of the
\* same user, since verified, has been given a session.
C37_Witness ==
    \E r, q \in Procs, s \in Indices(sessions) :
        /\ req[r].op = "login" /\ req[r].pc = "done"
        /\ req[r].resp = accountNotVerified
        /\ req[q].op = "login" /\ req[q].pc = "done"
        /\ req[q].resp.status = 200 /\ req[q].auth = s
        /\ sessions[s].userId = req[r].email

\* C38: no unrevoked session is held by a login whose password is no longer
\* the user's password: once reset-password has committed, every session
\* obtained with the old password is revoked, in any interleaving with login.
C38_NoSessionFromOldPassword ==
    \A r \in Procs :
        (/\ req[r].op = "login" /\ req[r].pc = "done"
         /\ req[r].resp.status = 200
         /\ sessions[req[r].auth].revokedAt = NULL)
        => verifyPassword(req[r].pw, users[req[r].email].password)

\* A step of a reset-password request, other than its success transaction.
ResetFailureStep(r) ==
    /\ req'[r].op = "reset"
    /\ req'[r] # req[r]
    /\ req[r].pc # "tx"

\* C39: a reset-password call that does not succeed writes nothing to the
\* user, the auth sessions, the active flag of an OTP session or a token;
\* only its wrong-code path writes, namely attemptCount and lockUntil of its
\* OTP session and one FAILURE OtpAttempt row. An address without user is
\* answered like a user without active reset session.
C39_FailedResetLeavesAccountUntouched ==
    [][ \A r \in Procs : ResetFailureStep(r) =>
          /\ users' = users
          /\ sessions' = sessions
          /\ otpTokens' = otpTokens
          /\ Len(otpSessions') = Len(otpSessions)
          /\ \A s \in Indices(otpSessions) :
                /\ otpSessions'[s] = [otpSessions[s] EXCEPT
                                         !.attemptCount = otpSessions'[s].attemptCount,
                                         !.lockUntil = otpSessions'[s].lockUntil]
                /\ otpSessions'[s] # otpSessions[s]
                   => /\ req[r].pc = "inc_write"
                      /\ s = req[r].sid
                      /\ ~verifyOTP(req[r].code, otpTokens[req[r].tid].codeHash)
          /\ otpAttempts' # otpAttempts
             => /\ req[r].pc = "attempt"
                /\ otpAttempts' = createPasswordResetOtpAttempt(otpAttempts, req[r].sid, req[r].tid,
                                                                "FAILURE", "INVALID_CODE")
                /\ req'[r].resp.code = "INVALID_RESET_CODE"
          /\ (/\ req'[r].pc = "done"
              /\ \/ ~users[req[r].email].exists
                 \/ findActivePasswordResetSession(otpSessions, req[r].email) = NULL)
             => req'[r].resp = noActivePasswordResetSession
      ]_vars

\* A reset-password request with a wrong code has failed against a locked
\* account that holds an auth session: the lock, the count, the password and
\* the session are as they were.
C39_Witness ==
    \E r \in Procs, s \in Indices(sessions) :
        /\ req[r].op = "reset" /\ req[r].pc = "done"
        /\ req[r].resp.code = "INVALID_RESET_CODE"
        /\ users[req[r].email].isLocked
        /\ users[req[r].email].loginAttempts >= MAX_LOGIN_ATTEMPTS
        /\ sessions[s].userId = req[r].email
        /\ sessions[s].revokedAt = NULL
        /\ \E a \in BagToSet(otpAttempts) : a.purpose = "PASSWORD_RESET" /\ a.status = "FAILURE"

\* A reset-password request for an address without user has been answered.
C39_WitnessUnknown ==
    \E r \in Procs :
        /\ req[r].op = "reset" /\ req[r].pc = "done"
        /\ ~users[req[r].email].exists
        /\ req[r].resp = noActivePasswordResetSession

====
